---- MODULE Spec2Model ----
(***************************************************************************)
(* Model of the symptom logger's suggestion engine (AISuggestionEngine in  *)
(* ai_suggestion_engine.js): the asynchronous knowledge load and the       *)
(* synchronous analyses that turn symptom records into a prioritised list  *)
(* of suggestions.  Strings are TLA+ strings; String.prototype.includes is *)
(* the operator Includes.  Time is counted in days.                        *)
(***************************************************************************)
EXTENDS Integers, Sequences, FiniteSets, TLC

VARIABLES
    healthKnowledge,   \* this.healthKnowledge: NullKnowledge until the load settles
    fetchCount,        \* number of fetch() calls issued so far
    fetchResponse,     \* how the fetch of loadHealthKnowledge settled; PendingFetch before
    now,               \* the wall clock (new Date()) at the latest call, in days
    symptoms,          \* first argument of the engine calls
    recentSymptoms,    \* second argument of generateIntelligentSuggestions
    lastCall,          \* the most recent engine call and what it returned
    earlierCall,       \* the call before it, when both were generateIntelligentSuggestions
    selectedSymptoms,  \* HealthTracker.selectedSymptoms: the names selected in the form
    trackerSymptoms,   \* HealthTracker.symptoms: the logged records
    storedSymptoms,    \* localStorage entry healthtracker_symptoms: the records last written
    dbManager,         \* HealthTracker.dbManager: absent, or present in one of its two modes
    emergencyAlert,    \* style.display of the emergencyAlert element
    dateNow,           \* Date.now() at the latest logSymptom call, in milliseconds
    lastOp,            \* the most recent HealthTracker operation and what it did
    userProfile,       \* localStorage entry userProfile: name and whatsappNumber
    storedNumber,      \* localStorage entry whatsappNumber
    emergencyLogs,     \* localStorage entry emergencyLogs: one entry per alert sent
    database,          \* the DatabaseManager: its mode and what symptoms.json holds
    login              \* the login page: its form, button, pending attempts and sessions

\* the fields of the suggestion engine
engineVars == <<healthKnowledge, fetchCount, fetchResponse, now, symptoms, recentSymptoms,
                lastCall, earlierCall>>

\* the fields of the HealthTracker and the page around it
trackerVars == <<selectedSymptoms, trackerSymptoms, storedSymptoms, dbManager,
                 emergencyAlert, dateNow, lastOp>>

\* the storage and the pages around the HealthTracker
pageVars == <<userProfile, storedNumber, emergencyLogs, database, login>>

vars == <<engineVars, trackerVars, pageVars>>

----------------------------------------------------------------------------
(* Bounds of the model *)

\* total number of records in symptoms and recentSymptoms together
MaxRecords == 3
\* the clock starts at NowStart and is followed up to MaxNow
MaxNow == 4

NowStart == 3

\* the symptom records the inputs are drawn from
SymptomPool ==
    { [type |-> "fever",           severity |-> 5, timestamp |-> 1],
      [type |-> "headache",        severity |-> 4, timestamp |-> 0],
      [type |-> "headache",        severity |-> 8, timestamp |-> 1],
      [type |-> "chest-pain",      severity |-> 9, timestamp |-> 1],
      [type |-> "severe-headache", severity |-> 3, timestamp |-> 1] }

\* number of user slugs given to the scorer on its own
MaxSlugs == 5

\* the records the scorer's own inputs are drawn from, one per slug
ScorePool ==
    { [type |-> "fever",           severity |-> 5, timestamp |-> 1],
      [type |-> "headache",        severity |-> 4, timestamp |-> 1],
      [type |-> "chest-pain",      severity |-> 5, timestamp |-> 1],
      [type |-> "severe-headache", severity |-> 3, timestamp |-> 1] }

\* ScoreLists[n]: the lists of at most n records of the score pool
ScoreLists[n \in 0..MaxSlugs] ==
    IF n = 0 THEN { <<>> }
    ELSE ScoreLists[n - 1] \cup { Append(l, r) : l \in ScoreLists[n - 1], r \in ScorePool }

\* number of names in the selected-symptom list
MaxSelected == 2
\* number of records in the HealthTracker's symptom list
MaxLogged == 2
\* the millisecond clock is followed from 0 up to MaxDateNow
MaxDateNow == 1

\* the texts typed into the symptom input
Phrases == { "", "fever", "chest pain", "burning eyes", "Burning Eyes", "dry-mouth",
             "and", "dry-mouth; FEVER", "or", "With" }

\* number of tokens in a canonical slug
MaxTokens == 3
\* number of round trips a slug is taken through
MaxRounds == 2

\* the lowercase tokens canonical slugs are made of
SlugTokens == { "fever", "of", "a", "o'clock" }

\* the texts typed into the symptom input when the form is submitted
LogPhrases == { "", "chest pain", "and", "dry-mouth; FEVER" }

\* data-symptom of the symptom tags and of the suggestion items
TagSlugs == { "headache", "chest-pain", "shortness-of-breath" }

\* the tag clicked between submissions
LogTags == { "shortness-of-breath" }

\* the values of the severity slider that are used
Severities == { 5, 8 }

\* Lists[n]: the lists of at most n records of the pool
Lists[n \in 0..MaxRecords] ==
    IF n = 0 THEN { <<>> }
    ELSE Lists[n - 1] \cup { Append(l, r) : l \in Lists[n - 1], r \in SymptomPool }

----------------------------------------------------------------------------
(* JavaScript helpers *)

\* String.prototype.includes
StringIncludes(s, t) == \E i \in 0..(Len(s) - Len(t)) : SubSeq(s, i + 1, i + Len(t)) = t

\* Array.prototype.includes

ArrayIncludes(arr, x) == \E i \in 1..Len(arr) : arr[i] = x

\* Array.prototype.map over the type field
TypesOf(list) == [i \in 1..Len(list) |-> list[i].type]

\* arr.filter(...).length
CountIf(arr, Test(_)) == Len(SelectSeq(arr, Test))

\* Math.round of the non-negative rational num/den (halves round up)
MathRound(num, den) == (2 * num + den) \div (2 * den)

RECURSIVE Flatten(_)
Flatten(lists) == IF lists = <<>> THEN <<>> ELSE Head(lists) \o Flatten(Tail(lists))

\* the pushes of a loop over arr, in order
FlatMap(arr, F(_)) == Flatten([i \in 1..Len(arr) |-> F(arr[i])])

----------------------------------------------------------------------------
(* Knowledge base *)

\* constructor: this.healthKnowledge = null
NullKnowledge == [kind |-> "null"]

\* the hardcoded fallback: one symptom entry and one medication entry
getDefaultKnowledge ==
    [kind |-> "knowledge", symptoms |-> {"headache"}, medications |-> {"acetaminophen"}]

\* the parsed content of database/health_knowledge.json: the symptoms and
\* medications tables of the knowledge data source
FileKnowledge ==
    [kind |-> "knowledge",
     symptoms |-> {"headache", "fever", "cough", "nausea", "fatigue"},
     medications |-> {"acetaminophen", "ibuprofen", "dextromethorphan"}]

\* a JSON body that parses but is not the knowledge file (the body of an
\* error response): an object with no symptoms and no medications table
ErrorBody == [kind |-> "other"]

\* the fetch has not settled yet
PendingFetch == [rejects |-> FALSE, ok |-> FALSE, body |-> "pending"]

\* what fetch() and response.json() can do
FetchOutcomes ==
    { [rejects |-> TRUE,  ok |-> FALSE, body |-> "none"],        \* network error
      [rejects |-> FALSE, ok |-> TRUE,  body |-> "knowledge"],   \* 200, the file
      [rejects |-> FALSE, ok |-> FALSE, body |-> "unparsable"],  \* 404, HTML page
      [rejects |-> FALSE, ok |-> FALSE, body |-> "json"] }       \* 404, JSON error body

\* !this.healthKnowledge
IsNull(K) == K.kind = "null"

\* K.symptoms and K.medications can be indexed without a TypeError
HasTables(K) == K.kind = "knowledge"

\* the value loadHealthKnowledge assigns once the fetch has settled with
\* outcome o: the parsed body, or the default when fetch() or json() rejects
LoadedValue(o) ==
    IF o.rejects \/ o.body = "unparsable" THEN getDefaultKnowledge
    ELSE IF o.body = "knowledge" THEN FileKnowledge
    ELSE ErrorBody

----------------------------------------------------------------------------
(* Emergency Assessor *)

CriticalTypes == <<"chest-pain", "shortness-breath", "severe-headache">>

\* variant: the severity test is strict
IsEmergencyAbove8(s) == s.severity > 8 \/ ArrayIncludes(CriticalTypes, s.type)

IsEmergency(s) == s.severity >= 8 \/ ArrayIncludes(CriticalTypes, s.type)

\* variant: one suggestion is pushed per triggering record
assessEmergencyPerRecord(list) ==
    FlatMap(SelectSeq(list, IsEmergency), LAMBDA s :
        << [id |-> "emergency_care", priority |-> "critical",
            category |-> "emergency", confidence |-> 95] >>)

assessEmergencySymptoms(list) ==
    LET emergencySymptoms == SelectSeq(list, IsEmergency)
    IN  IF Len(emergencySymptoms) > 0
        THEN << [id |-> "emergency_care", priority |-> "critical",
                 category |-> "emergency", confidence |-> 95] >>
        ELSE <<>>

----------------------------------------------------------------------------
(* Pattern/Disease Scorer *)

\* Object.entries order; threshold is in tenths (0.6 is 6)
getDiseasePatterns ==
    << [name |-> "flu", displayName |-> "Influenza (Flu)",
        symptoms |-> <<"fever", "headache", "muscle-aches", "fatigue", "cough">>,
        threshold |-> 6, confidenceMultiplier |-> 85, severity |-> "medium",
        earlySymptoms |-> <<"fatigue", "mild-headache", "body-aches">>],
       [name |-> "cold", displayName |-> "Common Cold",
        symptoms |-> <<"runny-nose", "sneezing", "sore-throat", "mild-headache", "cough">>,
        threshold |-> 5, confidenceMultiplier |-> 80, severity |-> "low",
        earlySymptoms |-> <<"scratchy-throat", "sneezing", "runny-nose">>],
       [name |-> "migraine", displayName |-> "Migraine Headache",
        symptoms |-> <<"severe-headache", "nausea", "light-sensitivity", "sound-sensitivity">>,
        threshold |-> 7, confidenceMultiplier |-> 90, severity |-> "medium",
        earlySymptoms |-> <<"mild-headache", "mood-changes", "food-cravings", "neck-stiffness">>],
       [name |-> "gastroenteritis", displayName |-> "Gastroenteritis (Stomach Bug)",
        symptoms |-> <<"nausea", "vomiting", "diarrhea", "abdominal-pain", "fever">>,
        threshold |-> 6, confidenceMultiplier |-> 85, severity |-> "medium",
        earlySymptoms |-> <<"mild-nausea", "loss-of-appetite", "mild-abdominal-discomfort">>] >>

earlyPatterns ==
    << [name |-> "respiratory_infection", symptoms |-> <<"scratchy-throat", "mild-cough", "runny-nose">>],
       [name |-> "digestive_issues", symptoms |-> <<"mild-nausea", "loss-of-appetite", "mild-abdominal-discomfort">>],
       [name |-> "stress_response", symptoms |-> <<"mild-headache", "fatigue", "muscle-tension">>] >>

SeqRange(arr) == { arr[i] : i \in 1..Len(arr) }

\* every slug of the tables and of the pool
KnownSlugs ==
    { r.type : r \in SymptomPool }
    \cup UNION { SeqRange(getDiseasePatterns[p].symptoms) : p \in 1..Len(getDiseasePatterns) }
    \cup UNION { SeqRange(earlyPatterns[p].symptoms) : p \in 1..Len(earlyPatterns) }

\* StringIncludes tabulated once over the known slugs
IncludesTable == [s \in KnownSlugs |-> { t \in KnownSlugs : StringIncludes(s, t) }]

\* s.includes(t)
Includes(s, t) ==
    IF s \in KnownSlugs /\ t \in KnownSlugs THEN t \in IncludesTable[s]
    ELSE StringIncludes(s, t)

\* symptom.includes(diseaseSymptom) || diseaseSymptom.includes(symptom), for some diseaseSymptom
MatchesSome(symptom, diseaseSymptoms) ==
    \E i \in 1..Len(diseaseSymptoms) :
        Includes(symptom, diseaseSymptoms[i]) \/ Includes(diseaseSymptoms[i], symptom)

countMatches(userSymptoms, diseaseSymptoms) ==
    CountIf(userSymptoms, LAMBDA symptom : MatchesSome(symptom, diseaseSymptoms))

\* variant: the matches are divided by the number of user slugs
calculateMatchOverInput(userSymptoms, diseaseSymptoms) ==
    [num |-> CountIf(userSymptoms, LAMBDA symptom : MatchesSome(symptom, diseaseSymptoms)),
     den |-> Len(userSymptoms)]

\* matches / diseaseSymptoms.length, kept as the fraction num/den
calculatePatternMatch(userSymptoms, diseaseSymptoms) ==
    [num |-> CountIf(userSymptoms, LAMBDA symptom : MatchesSome(symptom, diseaseSymptoms)),
     den |-> Len(diseaseSymptoms)]

determineStage(types, pattern) ==
    LET earlySymptomCount == CountIf(types, LAMBDA s : ArrayIncludes(pattern.earlySymptoms, s))
        totalSymptomCount == CountIf(types, LAMBDA s : ArrayIncludes(pattern.symptoms, s))
    IN  IF earlySymptomCount > 0 /\ totalSymptomCount <= 2 THEN "Early stage - symptoms just beginning"
        ELSE IF totalSymptomCount * 10 >= Len(pattern.symptoms) * 7 THEN "Active stage - full symptom presentation"
        ELSE "Developing stage - symptoms progressing"

\* variant: either condition is enough
PatternEmittedEither(matchScore, matchedCount, pattern) ==
    matchScore.num * 10 >= pattern.threshold * matchScore.den \/ matchedCount >= 2

\* matchScore >= pattern.threshold && matchedCount >= 2
PatternEmitted(matchScore, matchedCount, pattern) ==
    matchScore.num * 10 >= pattern.threshold * matchScore.den /\ matchedCount >= 2

\* variant: the product is rounded without the cap
PredictionConfidenceUncapped(matchScore, pattern) ==
    MathRound(matchScore.num * pattern.confidenceMultiplier, matchScore.den)

\* Math.round(Math.min(95, matchScore * pattern.confidenceMultiplier))
PredictionConfidence(matchScore, pattern) ==
    IF matchScore.num * pattern.confidenceMultiplier >= 95 * matchScore.den THEN 95
    ELSE MathRound(matchScore.num * pattern.confidenceMultiplier, matchScore.den)

\* the suggestion pushed for one pattern, or nothing
PredictionFor(symptomTypes, pattern) ==
    LET matchScore == calculatePatternMatch(symptomTypes, pattern.symptoms)
        matchedCount == countMatches(symptomTypes, pattern.symptoms)
    IN  IF PatternEmitted(matchScore, matchedCount, pattern)
        THEN << [id |-> "disease_prediction_" \o pattern.name,
                 priority |-> IF pattern.severity = "high" THEN "high" ELSE "medium",
                 category |-> "prediction",
                 stage |-> determineStage(symptomTypes, pattern),
                 confidence |-> PredictionConfidence(matchScore, pattern)] >>
        ELSE <<>>

\* days of the early-warning window (cutoff.getDate() - 3)
EarlyWindowDays == 3

\* variant: a record dated exactly at the cutoff is not recent
IsRecentStrict(s, clock) == s.timestamp > clock - EarlyWindowDays

\* new Date(s.timestamp) >= cutoff
IsRecent(s, clock) == s.timestamp >= clock - EarlyWindowDays

EarlyWarningFor(recent, info) ==
    IF CountIf(recent, LAMBDA s : MatchesSome(s.type, info.symptoms)) >= 2
    THEN << [id |-> "early_warning_" \o info.name, priority |-> "medium",
             category |-> "early_warning", confidence |-> 70] >>
    ELSE <<>>


detectEarlySymptoms(list, clock) ==
    LET recent == SelectSeq(list, LAMBDA s : IsRecent(s, clock))
    IN  FlatMap(earlyPatterns, LAMBDA info : EarlyWarningFor(recent, info))

predictPotentialConditions(list, clock) ==
    LET symptomTypes == TypesOf(list)
    IN  FlatMap(getDiseasePatterns, LAMBDA pattern : PredictionFor(symptomTypes, pattern))
        \o detectEarlySymptoms(list, clock)

----------------------------------------------------------------------------
(* Suggestion Aggregator *)

\* variant: fever alone is taken for the infection pattern
analyzeFeverAlone(list) ==
    LET symptomTypes == TypesOf(list)
    IN  IF ArrayIncludes(symptomTypes, "fever")
        THEN << [id |-> "infection_pattern", priority |-> "high",
                 category |-> "diagnosis", confidence |-> 85] >>
        ELSE <<>>

analyzeSymptomPatterns(list) ==
    LET symptomTypes == TypesOf(list)
    IN  (IF ArrayIncludes(symptomTypes, "fever") /\ ArrayIncludes(symptomTypes, "headache")
         THEN << [id |-> "infection_pattern", priority |-> "high",
                  category |-> "diagnosis", confidence |-> 85] >>
         ELSE <<>>)
        \o
        (IF ArrayIncludes(symptomTypes, "cough") /\ ArrayIncludes(symptomTypes, "fever")
         THEN << [id |-> "respiratory_pattern", priority |-> "high",
                  category |-> "diagnosis", confidence |-> 80] >>
         ELSE <<>>)

categorizeSeverity(severity) ==
    IF severity <= 3 THEN "mild" ELSE IF severity <= 6 THEN "moderate" ELSE "severe"

\* one suggestion per record whose type has an entry in K.symptoms
generateSymptomManagement(list, K) ==
    FlatMap(list, LAMBDA symptom :
        IF symptom.type \in K.symptoms
        THEN << [id |-> "manage_" \o symptom.type,
                 priority |-> IF categorizeSeverity(symptom.severity) = "severe"
                              THEN "high" ELSE "medium",
                 category |-> "treatment", confidence |-> 75] >>
        ELSE <<>>)

\* symptomTypes.length > 0 for the distinct types of the list
generatePreventiveCare(list) ==
    IF Cardinality({ list[i].type : i \in 1..Len(list) }) > 0
    THEN << [id |-> "preventive_care", priority |-> "low",
             category |-> "prevention", confidence |-> 70] >>
    ELSE <<>>

medicationMap(type) ==
    CASE type = "headache" -> <<"acetaminophen", "ibuprofen">>
      [] type = "fever"    -> <<"acetaminophen", "ibuprofen">>
      [] type = "cough"    -> <<"dextromethorphan">>
      [] type = "nausea"   -> <<"ginger", "ondansetron">>
      [] OTHER             -> <<>>

generateMedicationSuggestions(list, K) ==
    FlatMap(list, LAMBDA symptom :
        FlatMap(medicationMap(symptom.type), LAMBDA medName :
            IF medName \in K.medications
            THEN << [id |-> "medication_" \o medName \o "_" \o symptom.type,
                     priority |-> "medium", category |-> "medication",
                     confidence |-> 85] >>
            ELSE <<>>))

priorityOrder == [critical |-> 0, high |-> 1, medium |-> 2, low |-> 3]

\* self.findIndex(s => s.id === id)
FindIndexOfId(list, id) == CHOOSE i \in 1..Len(list) :
    list[i].id = id /\ \A j \in 1..(i - 1) : list[j].id # id

\* variant: the last suggestion of each id is the one kept
UniqueByIdKeepLast(list) ==
    LET keep == { i \in 1..Len(list) : \A j \in (i + 1)..Len(list) : list[j].id # list[i].id }
        F[i \in 0..Len(list)] ==
            IF i = 0 THEN <<>>
            ELSE IF i \in keep THEN Append(F[i - 1], list[i]) ELSE F[i - 1]
    IN  F[Len(list)]

\* suggestions.filter((item, index, self) => index === self.findIndex(...))
UniqueById(list) ==
    LET keep == { i \in 1..Len(list) : i = FindIndexOfId(list, list[i].id) }
        F[i \in 0..Len(list)] ==
            IF i = 0 THEN <<>>
            ELSE IF i \in keep THEN Append(F[i - 1], list[i]) ELSE F[i - 1]
    IN  F[Len(list)]

\* variant: x goes in front of the elements it compares equal to
UnstableInsert(sorted, x) ==
    SelectSeq(sorted, LAMBDA y : priorityOrder[y.priority] - priorityOrder[x.priority] < 0)
    \o <<x>> \o
    SelectSeq(sorted, LAMBDA y : priorityOrder[y.priority] - priorityOrder[x.priority] >= 0)

\* where a stable sort puts x in an already sorted list: behind every element
\* that does not compare greater
StableInsert(sorted, x) ==
    SelectSeq(sorted, LAMBDA y : priorityOrder[y.priority] - priorityOrder[x.priority] <= 0)
    \o <<x>> \o
    SelectSeq(sorted, LAMBDA y : priorityOrder[y.priority] - priorityOrder[x.priority] > 0)

\* variant: the list is left in the order of production
SortSkipped(list) == list

\* Array.prototype.sort with the priority comparator (stable)
SortByPriority(list) ==
    LET F[i \in 0..Len(list)] ==
            IF i = 0 THEN <<>> ELSE StableInsert(F[i - 1], list[i])
    IN  F[Len(list)]

prioritizeAndFormat(list) == SortByPriority(UniqueById(list))

getBasicSuggestions ==
    << [id |-> "loading", priority |-> "low", category |-> "system"] >>

\* variant: every prediction is kept
KeepsAnyPrediction(s) == TRUE

\* filter(s => (s.confidence || 0) >= 60)
KeepsPrediction(s) == s.confidence >= 60

\* the suggestions array just before prioritizeAndFormat
CollectSuggestions(syms, recent, K, clock) ==
    LET allSymptoms == syms \o recent
    IN  assessEmergencySymptoms(allSymptoms)
        \o SelectSeq(predictPotentialConditions(allSymptoms, clock), KeepsPrediction)
        \o analyzeSymptomPatterns(allSymptoms)
        \o SelectSeq(generateSymptomManagement(syms, K),
                     LAMBDA s : s.priority # "low" \/ s.confidence >= 70)
        \o generatePreventiveCare(allSymptoms)
        \o generateMedicationSuggestions(syms, K)

\* a TypeError is thrown when a table of K is indexed and K has none:
\* in generateSymptomManagement for a record of symptoms, in
\* getPreventiveActions for a type of allSymptoms
IndexesTables(syms, recent) == Len(syms \o recent) > 0

\* variant: the null check at the top is missing
generateWithoutNullGuard(syms, recent, K, clock) ==
    IF ~HasTables(K) /\ IndexesTables(syms, recent) THEN [status |-> "threw"]
    ELSE IF ~HasTables(K) THEN [status |-> "returned", list |-> <<>>]
    ELSE [status |-> "returned",
          list |-> prioritizeAndFormat(CollectSuggestions(syms, recent, K, clock))]

generateIntelligentSuggestions(syms, recent, K, clock) ==
    IF IsNull(K) THEN [status |-> "returned", list |-> getBasicSuggestions]
    ELSE IF ~HasTables(K) /\ IndexesTables(syms, recent) THEN [status |-> "threw"]
    ELSE IF ~HasTables(K) THEN [status |-> "returned", list |-> <<>>]
    ELSE [status |-> "returned",
          list |-> prioritizeAndFormat(CollectSuggestions(syms, recent, K, clock))]

----------------------------------------------------------------------------
(* HealthTracker: strings *)

CharAt(s, i) == SubSeq(s, i, i)

UpperLetters == "ABCDEFGHIJKLMNOPQRSTUVWXYZ"

LowerLetters == "abcdefghijklmnopqrstuvwxyz"

IsUpperLetter(c) == \E i \in 1..Len(UpperLetters) : CharAt(UpperLetters, i) = c

IsLowerLetter(c) == \E i \in 1..Len(LowerLetters) : CharAt(LowerLetters, i) = c

toLowerCaseChar(c) ==
    IF IsUpperLetter(c)
    THEN CharAt(LowerLetters, CHOOSE i \in 1..Len(UpperLetters) : CharAt(UpperLetters, i) = c)
    ELSE c

toUpperCaseChar(c) ==
    IF IsLowerLetter(c)
    THEN CharAt(UpperLetters, CHOOSE i \in 1..Len(LowerLetters) : CharAt(LowerLetters, i) = c)
    ELSE c

\* String.prototype.toLowerCase, character by character
RECURSIVE LowerCased(_)
LowerCased(s) ==
    IF s = "" THEN ""
    ELSE toLowerCaseChar(CharAt(s, 1)) \o LowerCased(SubSeq(s, 2, Len(s)))

\* String.prototype.split on a one-character separator
RECURSIVE split(_, _)
split(s, sep) ==
    IF \A i \in 1..Len(s) : CharAt(s, i) # sep THEN << s >>
    ELSE LET k == CHOOSE i \in 1..Len(s) :
                      CharAt(s, i) = sep /\ \A j \in 1..(i - 1) : CharAt(s, j) # sep
         IN  << SubSeq(s, 1, k - 1) >> \o split(SubSeq(s, k + 1, Len(s)), sep)

\* Array.prototype.join
RECURSIVE join(_, _)
join(words, sep) ==
    IF Len(words) = 0 THEN ""
    ELSE IF Len(words) = 1 THEN words[1]
    ELSE words[1] \o sep \o join(Tail(words), sep)

\* String.prototype.trim
RECURSIVE trim(_)
trim(s) ==
    IF s = "" THEN ""
    ELSE IF CharAt(s, 1) = " " THEN trim(SubSeq(s, 2, Len(s)))
    ELSE IF CharAt(s, Len(s)) = " " THEN trim(SubSeq(s, 1, Len(s) - 1))
    ELSE s

\* replace(/\s+/g, '-'): every run of whitespace becomes one hyphen
RECURSIVE ReplaceWhitespace(_)
ReplaceWhitespace(s) ==
    IF s = "" THEN ""
    ELSE IF CharAt(s, 1) = " "
         THEN IF Len(s) > 1 /\ CharAt(s, 2) = " "
              THEN ReplaceWhitespace(SubSeq(s, 2, Len(s)))
              ELSE "-" \o ReplaceWhitespace(SubSeq(s, 2, Len(s)))
    ELSE CharAt(s, 1) \o ReplaceWhitespace(SubSeq(s, 2, Len(s)))

\* input.split(/[,;]+/): the pieces between commas and semicolons (a run of
\* delimiters leaves empty pieces here, which the callers filter out)
SplitOnDelimiters(input) == Flatten([i \in 1..Len(split(input, ",")) |->
                                        split(split(input, ",")[i], ";")])

\* input.split(/[,;]+/).map(part => part.trim()).filter(part => part.length > 0)
SplitParts(input) ==
    LET pieces == SplitOnDelimiters(input)
    IN  SelectSeq([i \in 1..Len(pieces) |-> trim(pieces[i])], LAMBDA part : Len(part) > 0)

\* word.charAt(0).toUpperCase() + word.slice(1)
Capitalize(word) ==
    IF word = "" THEN "" ELSE toUpperCaseChar(CharAt(word, 1)) \o SubSeq(word, 2, Len(word))

\* variant: the words are joined without a separator
FormattedNameJoined(symptom) ==
    LET words == split(symptom, "-")
    IN  join([i \in 1..Len(words) |-> Capitalize(words[i])], "")

\* symptom.split('-').map(capitalise).join(' ')
FormattedName(symptom) ==
    LET words == split(symptom, "-")
    IN  join([i \in 1..Len(words) |-> Capitalize(words[i])], " ")

\* initializeSymptomDatabase: name and keywords of each definition, in order
symptomDatabase ==
    << [name |-> "Headache", keywords |-> << "head", "migraine", "tension" >>],
       [name |-> "Chest Pain", keywords |-> << "chest", "heart", "cardiac" >>],
       [name |-> "Stomach Pain", keywords |-> << "stomach", "abdominal", "belly" >>],
       [name |-> "Joint Pain", keywords |-> << "joint", "arthritis", "knee", "elbow" >>],
       [name |-> "Back Pain", keywords |-> << "back", "spine", "lower back" >>],
       [name |-> "Muscle Pain", keywords |-> << "muscle", "sore", "ache" >>],
       [name |-> "Neck Pain", keywords |-> << "neck", "stiff neck" >>],
       [name |-> "Tooth Pain", keywords |-> << "tooth", "dental", "toothache" >>],
       [name |-> "Cough", keywords |-> << "cough", "dry cough", "wet cough" >>],
       [name |-> "Shortness of Breath", keywords |-> << "breath", "breathing", "dyspnea" >>],
       [name |-> "Sore Throat", keywords |-> << "throat", "sore", "scratchy" >>],
       [name |-> "Runny Nose", keywords |-> << "nose", "runny", "congestion" >>],
       [name |-> "Sneezing", keywords |-> << "sneeze", "sneezing" >>],
       [name |-> "Wheezing", keywords |-> << "wheeze", "wheezing", "asthma" >>],
       [name |-> "Fever", keywords |-> << "fever", "temperature", "hot" >>],
       [name |-> "Fatigue", keywords |-> << "tired", "exhausted", "fatigue", "weakness" >>],
       [name |-> "Nausea", keywords |-> << "nausea", "sick", "queasy" >>],
       [name |-> "Dizziness", keywords |-> << "dizzy", "lightheaded", "vertigo" >>],
       [name |-> "Chills", keywords |-> << "chills", "cold", "shivering" >>],
       [name |-> "Sweating", keywords |-> << "sweat", "sweating", "perspiration" >>],
       [name |-> "Loss of Appetite", keywords |-> << "appetite", "hunger", "eating" >>],
       [name |-> "Weight Loss", keywords |-> << "weight", "loss", "thin" >>],
       [name |-> "Anxiety", keywords |-> << "anxiety", "worry", "nervous" >>],
       [name |-> "Depression", keywords |-> << "depression", "sad", "mood" >>],
       [name |-> "Insomnia", keywords |-> << "sleep", "insomnia", "sleepless" >>],
       [name |-> "Stress", keywords |-> << "stress", "pressure", "overwhelmed" >>],
       [name |-> "Confusion", keywords |-> << "confusion", "confused", "memory" >>],
       [name |-> "Mood Swings", keywords |-> << "mood", "emotional", "irritable" >>],
       [name |-> "Vomiting", keywords |-> << "vomit", "throwing up", "sick" >>],
       [name |-> "Diarrhea", keywords |-> << "diarrhea", "loose stool", "bowel" >>],
       [name |-> "Constipation", keywords |-> << "constipation", "blocked", "bowel" >>],
       [name |-> "Heartburn", keywords |-> << "heartburn", "acid", "reflux" >>],
       [name |-> "Bloating", keywords |-> << "bloating", "gas", "swollen" >>],
       [name |-> "Rash", keywords |-> << "rash", "skin", "red" >>],
       [name |-> "Itching", keywords |-> << "itch", "itchy", "scratch" >>],
       [name |-> "Bruising", keywords |-> << "bruise", "bruising", "purple" >>],
       [name |-> "Swelling", keywords |-> << "swelling", "swollen", "inflammation" >>],
       [name |-> "Migraine", keywords |-> << "migraine", "severe headache", "throbbing" >>],
       [name |-> "Numbness", keywords |-> << "numbness", "numb", "tingling" >>],
       [name |-> "Tingling", keywords |-> << "tingling", "pins needles", "sensation" >>],
       [name |-> "Confusion", keywords |-> << "confusion", "disoriented", "memory" >>] >>

\* the parts of the typed texts
AllParts == UNION { SeqRange(SplitParts(input)) : input \in Phrases \cup LogPhrases }

\* the names in the symptom definitions
DefinitionNames == { symptomDatabase[i].name : i \in 1..Len(symptomDatabase) }

WithFormatted(texts) == texts \cup { FormattedName(x) : x \in texts }

WithLowerCased(texts) == texts \cup { LowerCased(x) : x \in texts }

\* every text the form handles: typed parts, tag slugs, names, and their
\* formatted and lowercased forms
KnownTexts == WithLowerCased(WithFormatted(AllParts \cup TagSlugs \cup DefinitionNames))

\* the string operations tabulated once over the known texts
LowerTable == [x \in KnownTexts |-> LowerCased(x)]

FormatTable == [x \in KnownTexts |-> FormattedName(x)]

TypeTable == [x \in KnownTexts |-> ReplaceWhitespace(LowerCased(x))]

PartsTable == [input \in Phrases \cup LogPhrases |-> SplitParts(input)]

\* the tabulated value for x, or the operation itself outside the table
Tabulated(table, x, Operation(_)) == IF x \in DOMAIN table THEN table[x] ELSE Operation(x)

\* String.prototype.toLowerCase
toLowerCase(s) == Tabulated(LowerTable, s, LowerCased)

PartsOf(input) == Tabulated(PartsTable, input, SplitParts)

----------------------------------------------------------------------------
(* HealthTracker: symptom definitions and the selected-symptom list *)

\* no definition found (Array.prototype.find returns undefined)
NoSymptom == [name |-> "", keywords |-> << >>]

\* the lowercased names of the definitions
LowerNames == [i \in 1..Len(symptomDatabase) |-> toLowerCase(symptomDatabase[i].name)]

\* Array.prototype.find over the definitions: the first index that passes
FindSymptom(Test(_)) ==
    IF \E i \in 1..Len(symptomDatabase) : Test(i)
    THEN symptomDatabase[CHOOSE i \in 1..Len(symptomDatabase) :
                            Test(i) /\ \A j \in 1..(i - 1) : ~Test(j)]
    ELSE NoSymptom

\* variant: the keyword lookup is taken first
FirstMatchKeywordFirst(exact, partial, keyword) ==
    IF keyword # NoSymptom THEN keyword
    ELSE IF exact # NoSymptom THEN exact
    ELSE partial

\* if (match) return match, for the three lookups in turn
FirstMatch(exact, partial, keyword) ==
    IF exact # NoSymptom THEN exact
    ELSE IF partial # NoSymptom THEN partial
    ELSE keyword

\* the three lookups for the lowercased input
MatchQuery(query) ==
    FirstMatch(FindSymptom(LAMBDA i : LowerNames[i] = query),
               FindSymptom(LAMBDA i :
                   StringIncludes(LowerNames[i], query) \/ StringIncludes(query, LowerNames[i])),
               FindSymptom(LAMBDA i :
                   \E k \in 1..Len(symptomDatabase[i].keywords) :
                       \/ StringIncludes(symptomDatabase[i].keywords[k], query)
                       \/ StringIncludes(query, symptomDatabase[i].keywords[k])))

BestSymptomMatch(input) == MatchQuery(toLowerCase(input))

\* the lookup tabulated once over the typed parts
MatchTable == [part \in AllParts |-> BestSymptomMatch(part)]

findBestSymptomMatch(input) == Tabulated(MatchTable, input, BestSymptomMatch)

stopWords == <<"and", "or", "the", "a", "an", "with", "have", "has", "feel", "feeling">>

isCommonStopWord(word) == ArrayIncludes(stopWords, word)

\* /^[a-zA-Z\s\-']+$/
ValidPattern(input) ==
    /\ Len(input) > 0
    /\ \A i \in 1..Len(input) :
          LET c == CharAt(input, i)
          IN  IsUpperLetter(c) \/ IsLowerLetter(c) \/ c = " " \/ c = "-" \/ c = "'"

ValidSymptomInput(input) ==
    /\ Len(input) >= 2
    /\ Len(input) <= 50
    /\ ValidPattern(input)
    /\ ~isCommonStopWord(toLowerCase(input))

ValidTable == [part \in AllParts |-> ValidSymptomInput(part)]

isValidSymptomInput(input) == Tabulated(ValidTable, input, ValidSymptomInput)

\* formatSymptomName of a string: the hyphen-separated words, each with its
\* first character in upper case, joined by spaces
formatSymptomName(symptom) == Tabulated(FormatTable, symptom, FormattedName)

\* symptomName.toLowerCase().replace(/\s+/g, '-')
TypeOfName(symptomName) ==
    Tabulated(TypeTable, symptomName, LAMBDA name : ReplaceWhitespace(LowerCased(name)))

\* some(s => s.toLowerCase() === lowerName)
SomeLowerEquals(selected, lowerName) ==
    \E i \in 1..Len(selected) : toLowerCase(selected[i]) = lowerName

\* variant: the names are compared as they are
IsSelectedExact(selected, name) ==
    \E i \in 1..Len(selected) : selected[i] = name

\* selectedSymptoms.some(s => s.toLowerCase() === name.toLowerCase())
IsSelected(selected, name) == SomeLowerEquals(selected, toLowerCase(name))

\* push(name) unless the name is selected already
PushUnlessSelected(selected, name) ==
    IF ~IsSelected(selected, name) THEN Append(selected, name) ELSE selected

\* the part is added under the name of the definition matched, or as a
\* custom symptom if it is valid, or dropped
AddResolved(selected, matchedSymptom, part) ==
    IF matchedSymptom # NoSymptom
    THEN PushUnlessSelected(selected, matchedSymptom.name)
    ELSE IF isValidSymptomInput(part)
         THEN PushUnlessSelected(selected, formatSymptomName(part))
         ELSE selected

\* the body of the forEach of processAdditionalSymptoms and addSymptomDirectly
AddPart(selected, part) == AddResolved(selected, findBestSymptomMatch(part), part)

RECURSIVE AddParts(_, _)
AddParts(selected, parts) ==
    IF parts = << >> THEN selected
    ELSE AddParts(AddPart(selected, Head(parts)), Tail(parts))

processAdditionalSymptoms(selected, input) == AddParts(selected, PartsOf(input))

addSymptomDirectly(selected, input) == AddParts(selected, PartsOf(input))

\* remove the element at index k (splice(k, 1))
Splice(list, k) == SubSeq(list, 1, k - 1) \o SubSeq(list, k + 1, Len(list))

\* findIndex(s => s.toLowerCase() === lowerName), from 1; 0 when none
FindIndexIgnoringCase(selected, lowerName) ==
    IF \E k \in 1..Len(selected) : toLowerCase(selected[k]) = lowerName
    THEN CHOOSE k \in 1..Len(selected) :
             /\ toLowerCase(selected[k]) = lowerName
             /\ \A j \in 1..(k - 1) : toLowerCase(selected[j]) # lowerName
    ELSE 0

\* splice at the index found, or push
ToggleAt(selected, existingIndex, symptomName) ==
    IF existingIndex >= 1 THEN Splice(selected, existingIndex)
    ELSE Append(selected, symptomName)

\* the name is looked up ignoring case, then removed or added
ToggleName(selected, symptomName) ==
    ToggleAt(selected, FindIndexIgnoringCase(selected, toLowerCase(symptomName)), symptomName)

toggleSymptomSelection(selected, symptom) == ToggleName(selected, formatSymptomName(symptom))

addSymptomFromSuggestion(selected, symptom) ==
    PushUnlessSelected(selected, formatSymptomName(symptom))

removeSelectedSymptom(selected, symptom) ==
    IF \E k \in 1..Len(selected) : selected[k] = symptom
    THEN Splice(selected, CHOOSE k \in 1..Len(selected) :
             selected[k] = symptom /\ \A j \in 1..(k - 1) : selected[j] # symptom)
    ELSE selected

----------------------------------------------------------------------------
(* The engine as a state machine *)

NoCall == [op |-> "none"]

\* no HealthTracker operation yet
NoOp == [op |-> "none"]

\* JSON.parse(localStorage.getItem('userProfile') || '{}') with no entry stored:
\* an empty string stands for a field that is missing
NoProfile == [name |-> "", whatsappNumber |-> ""]

\* new DatabaseManager() once init() has settled: not in fallback mode, with a
\* symptoms.json that loads and holds no records
DatabaseReady == [fallbackMode |-> FALSE, fileSymptoms |-> << >>]

\* new AuthManager() on the login page: empty form, no session, button enabled
LoginPageLoaded ==
    [username |-> "", password |-> "", rememberMe |-> FALSE, disabled |-> FALSE,
     pending |-> << >>, localSession |-> << >>, sessionSession |-> << >>,
     started |-> 0, redirectScheduled |-> FALSE, redirected |-> FALSE]

\* a browser profile with nothing stored, the pages just loaded
PageFresh ==
    /\ userProfile = NoProfile
    /\ storedNumber = ""
    /\ emergencyLogs = << >>
    /\ database = DatabaseReady
    /\ login = LoginPageLoaded

\* new HealthTracker() on a fresh profile: nothing selected, nothing logged,
\* nothing stored
TrackerConstructed ==
    /\ PageFresh
    /\ selectedSymptoms = << >>
    /\ trackerSymptoms = << >>
    /\ storedSymptoms = << >>
    /\ dbManager = "absent"
    /\ emergencyAlert = "none"
    /\ dateNow = 0
    /\ lastOp = NoOp

\* the argument lists of the calls are drawn from the pool
InputsChosen ==
    /\ symptoms \in Lists[MaxRecords]
    /\ recentSymptoms \in Lists[MaxRecords - Len(symptoms)]

\* new AISuggestionEngine(): healthKnowledge is null and the load is under way
InitLoad ==
    /\ healthKnowledge = NullKnowledge
    /\ fetchCount = 1
    /\ fetchResponse = PendingFetch
    /\ now = NowStart
    /\ InputsChosen
    /\ lastCall = NoCall
    /\ earlierCall = NoCall
    /\ TrackerConstructed

\* an engine whose load has settled with the knowledge file fetched
Init ==
    /\ fetchCount = 1
    /\ fetchResponse = [rejects |-> FALSE, ok |-> TRUE, body |-> "knowledge"]
    /\ healthKnowledge = LoadedValue(fetchResponse)
    /\ now = NowStart
    /\ InputsChosen
    /\ lastCall = NoCall
    /\ earlierCall = NoCall
    /\ TrackerConstructed

\* the continuation of loadHealthKnowledge once the fetch settles
loadHealthKnowledge ==
    /\ fetchResponse = PendingFetch
    /\ \E o \in FetchOutcomes :
        /\ fetchResponse' = o
        /\ healthKnowledge' = LoadedValue(o)
    /\ UNCHANGED <<fetchCount, now, symptoms, recentSymptoms, lastCall, earlierCall>>
    /\ UNCHANGED <<trackerVars, pageVars>>

\* a call of generateIntelligentSuggestions(symptoms, recentSymptoms) at moment t
CallGenerateAt(t) ==
    /\ now' = t
    /\ lastCall' = [op |-> "generateIntelligentSuggestions",
                    knowledge |-> healthKnowledge, clock |-> t,
                    out |-> generateIntelligentSuggestions(symptoms, recentSymptoms,
                                                           healthKnowledge, t)]
    /\ earlierCall' = IF lastCall.op = "generateIntelligentSuggestions"
                      THEN lastCall ELSE NoCall
    /\ UNCHANGED <<healthKnowledge, fetchCount, fetchResponse, symptoms, recentSymptoms>>
    /\ UNCHANGED <<trackerVars, pageVars>>

\* the call is made now or at any later moment
CallGenerateIntelligentSuggestions == \E t \in now..MaxNow : CallGenerateAt(t)

\* the call is made while the clock stands at the moment of construction
CallGenerateDuringLoad == CallGenerateAt(now)

\* a call of assessEmergencySymptoms on the combined list; it does not read the clock
CallAssessEmergencySymptoms ==
    /\ lastCall' = [op |-> "assessEmergencySymptoms",
                    out |-> assessEmergencySymptoms(symptoms \o recentSymptoms)]
    /\ earlierCall' = NoCall
    /\ UNCHANGED <<healthKnowledge, fetchCount, fetchResponse, now, symptoms, recentSymptoms>>
    /\ UNCHANGED <<trackerVars, pageVars>>

\* a call of predictPotentialConditions on the combined list, made now or at
\* any later moment t
CallPredictPotentialConditions ==
    \E t \in now..MaxNow :
        /\ now' = t
        /\ lastCall' = [op |-> "predictPotentialConditions", clock |-> t,
                        out |-> predictPotentialConditions(symptoms \o recentSymptoms, t)]
        /\ earlierCall' = NoCall
        /\ UNCHANGED <<healthKnowledge, fetchCount, fetchResponse, symptoms, recentSymptoms>>
        /\ UNCHANGED <<trackerVars, pageVars>>

\* the scorer on its own: a list of up to MaxSlugs records of the score pool
InitScore ==
    /\ fetchCount = 1
    /\ fetchResponse = [rejects |-> FALSE, ok |-> TRUE, body |-> "knowledge"]
    /\ healthKnowledge = LoadedValue(fetchResponse)
    /\ now = NowStart
    /\ symptoms \in ScoreLists[MaxSlugs]
    /\ recentSymptoms = <<>>
    /\ lastCall = NoCall
    /\ earlierCall = NoCall
    /\ TrackerConstructed

\* calculatePatternMatch for one pattern, on the slugs of the list and on the
\* same slugs with one more slug added
CallCalculatePatternMatch ==
    \E p \in 1..Len(getDiseasePatterns), added \in { r.type : r \in ScorePool } :
        LET userSymptoms == TypesOf(symptoms)
            diseaseSymptoms == getDiseasePatterns[p].symptoms
        IN  /\ lastCall' = [op |-> "calculatePatternMatch", pattern |-> p, added |-> added,
                            before |-> calculatePatternMatch(userSymptoms, diseaseSymptoms),
                            after |-> calculatePatternMatch(Append(userSymptoms, added),
                                                            diseaseSymptoms)]
            /\ earlierCall' = NoCall
            /\ UNCHANGED <<healthKnowledge, fetchCount, fetchResponse, now,
                           symptoms, recentSymptoms>>
            /\ UNCHANGED <<trackerVars, pageVars>>

\* a call of predictPotentialConditions on the list, at the present moment
CallPredictNow ==
    /\ lastCall' = [op |-> "predictPotentialConditions", clock |-> now,
                    out |-> predictPotentialConditions(symptoms \o recentSymptoms, now)]
    /\ earlierCall' = NoCall
    /\ UNCHANGED <<healthKnowledge, fetchCount, fetchResponse, now, symptoms, recentSymptoms>>
    /\ UNCHANGED <<trackerVars, pageVars>>

NextScore ==
    \/ CallCalculatePatternMatch
    \/ CallPredictNow

SpecScore == InitScore /\ [][NextScore]_vars

\* the analyses of a loaded engine, as time passes
Next ==
    \/ CallGenerateIntelligentSuggestions
    \/ CallAssessEmergencySymptoms
    \/ CallPredictPotentialConditions

Spec == Init /\ [][Next]_vars

\* the engine from its construction on: the load and the aggregator calls
NextLoad ==
    \/ loadHealthKnowledge
    \/ CallGenerateDuringLoad

SpecLoad == InitLoad /\ [][NextLoad]_vars

----------------------------------------------------------------------------
(* WhatsApp emergency service and the user profile *)

\* number of entries in the emergency log
MaxAlerts == 2

\* the names typed into the setup and settings forms, trimmed
NamePool == { "", "Asha" }

\* the phone numbers typed into the forms, trimmed
NumberPool == { "", "12345", "98765 43210" }

\* this.emergencyThreshold
emergencyThreshold == 8

\* this.criticalSymptoms
criticalSymptoms ==
    <<"chest pain", "difficulty breathing", "severe headache",
      "loss of consciousness", "severe abdominal pain", "high fever">>

Digits == "0123456789"

IsDigit(c) == \E i \in 1..Len(Digits) : CharAt(Digits, i) = c

\* replace(/\D/g, '')
RECURSIVE DigitsOnly(_)
DigitsOnly(s) ==
    IF s = "" THEN ""
    ELSE (IF IsDigit(CharAt(s, 1)) THEN CharAt(s, 1) ELSE "") \o DigitsOnly(SubSeq(s, 2, Len(s)))

\* replace(/[^\d+]/g, '')
RECURSIVE DigitsAndPlus(_)
DigitsAndPlus(s) ==
    IF s = "" THEN ""
    ELSE (IF IsDigit(CharAt(s, 1)) \/ CharAt(s, 1) = "+" THEN CharAt(s, 1) ELSE "")
         \o DigitsAndPlus(SubSeq(s, 2, Len(s)))

\* the symptom object has a name field; the records logSymptom builds have none
HasName(symptom) == "name" \in DOMAIN symptom

\* symptom.name.toLowerCase().includes(critical), for some critical symptom
NamesCritical(lowerName) ==
    \E i \in 1..Len(criticalSymptoms) : StringIncludes(lowerName, criticalSymptoms[i])

\* the callback of isEmergencyAlert on one symptom; reading name.toLowerCase()
\* of an object without a name throws a TypeError
EmergencyTest(symptom) ==
    IF symptom.severity >= emergencyThreshold THEN "yes"
    ELSE IF ~HasName(symptom) THEN "throws"
    ELSE IF NamesCritical(LowerCased(symptom.name)) THEN "yes" ELSE "no"

\* the verdict on the head decides, unless it is "no"
SomeFrom(headVerdict, restVerdict) == IF headVerdict = "no" THEN restVerdict ELSE headVerdict

\* symptoms.some(...): "yes", "no", or "throws"
RECURSIVE isEmergencyAlert(_)
isEmergencyAlert(alertSymptoms) ==
    IF alertSymptoms = << >> THEN "no"
    ELSE SomeFrom(EmergencyTest(Head(alertSymptoms)), isEmergencyAlert(Tail(alertSymptoms)))

\* logEmergencyAlert: the entry pushed onto the stored log
AlertLog(phoneNumber) == [phoneNumber |-> phoneNumber, type |-> "emergency_alert"]

\* sendEmergencyAlert: the profile is given the stored number when it has none
Hydrated(profile, number) ==
    IF profile.whatsappNumber = "" /\ number # ""
    THEN [profile EXCEPT !.whatsappNumber = number]
    ELSE profile

\* variant: the message is sent without a look at the symptoms
AlertAlways(profile, logs, verdict) ==
    IF profile.whatsappNumber = ""
    THEN [profile |-> profile, logs |-> logs, opened |-> << >>,
          prompt |-> "setup", confirmed |-> FALSE, threw |-> FALSE]
    ELSE [profile |-> profile,
          logs |-> Append(logs, AlertLog(profile.whatsappNumber)),
          opened |-> << DigitsAndPlus(profile.whatsappNumber) >>,
          prompt |-> "none", confirmed |-> TRUE, threw |-> FALSE]

\* sendEmergencyAlert once the number has been looked up: the setup prompt, or
\* sendWhatsAppMessage (window.open and logEmergencyAlert) and the confirmation
\* when the symptoms qualify
AlertOutcome(profile, logs, verdict) ==
    IF profile.whatsappNumber = ""
    THEN [profile |-> profile, logs |-> logs, opened |-> << >>,
          prompt |-> "setup", confirmed |-> FALSE, threw |-> FALSE]
    ELSE IF verdict = "yes"
    THEN [profile |-> profile,
          logs |-> Append(logs, AlertLog(profile.whatsappNumber)),
          opened |-> << DigitsAndPlus(profile.whatsappNumber) >>,
          prompt |-> "none", confirmed |-> TRUE, threw |-> FALSE]
    ELSE [profile |-> profile, logs |-> logs, opened |-> << >>,
          prompt |-> "none", confirmed |-> FALSE, threw |-> (verdict = "throws")]

\* sendEmergencyAlert(userProfile, symptoms) with the stored number and log
sendEmergencyAlert(profile, number, logs, alertSymptoms) ==
    AlertOutcome(Hydrated(profile, number), logs, isEmergencyAlert(alertSymptoms))

\* nothing sent: the outcome of a call that returns before sendEmergencyAlert
NothingSent(profile, logs, prompt) ==
    [profile |-> profile, logs |-> logs, opened |-> << >>,
     prompt |-> prompt, confirmed |-> FALSE, threw |-> FALSE]

\* handleWhatsAppEmergencyAlert(symptom)
handleWhatsAppEmergencyAlert(profile, number, logs, symptom) ==
    IF profile.whatsappNumber # ""
    THEN sendEmergencyAlert(profile, number, logs, << symptom >>)
    ELSE NothingSent(profile, logs, "emergencySetup")

\* the number as saveNewUserSetup formats it
SetupNumber(whatsappNumber, cleanNumber) ==
    IF Len(cleanNumber) = 10 /\ ~StringIncludes(whatsappNumber, "+") THEN "+91" \o cleanNumber
    ELSE IF Len(cleanNumber) > 10 /\ ~StringIncludes(whatsappNumber, "+") THEN "+" \o cleanNumber
    ELSE whatsappNumber

\* saveNewUserSetup with the trimmed inputs: the profile is replaced
SetupSaved(profile, name, whatsappNumber, cleanNumber) ==
    IF name = "" \/ whatsappNumber = "" \/ Len(cleanNumber) < 10 THEN profile
    ELSE [name |-> name, whatsappNumber |-> SetupNumber(whatsappNumber, cleanNumber)]

saveNewUserSetup(profile, name, whatsappNumber) ==
    SetupSaved(profile, name, whatsappNumber, DigitsOnly(whatsappNumber))

\* the number as saveWhatsAppNumber of the service formats it
ServiceNumber(cleanNumber) ==
    IF Len(cleanNumber) = 10 THEN "+91" \o cleanNumber
    ELSE IF Len(cleanNumber) > 10 THEN "+" \o cleanNumber
    ELSE cleanNumber

\* the input of saveWhatsAppNumber passes its checks
ServiceNumberValid(cleanNumber) == Len(cleanNumber) >= 10

\* the name, taken from the session when the profile has none
NameFromSession(name, authUser) ==
    IF (name = "" \/ name = "Healthcare User") /\ authUser # "" THEN authUser ELSE name

\* saveWhatsAppNumber of the service: the profile keeps its other fields
NumberSaved(profile, formattedNumber, authUser) ==
    [name |-> NameFromSession(profile.name, authUser), whatsappNumber |-> formattedNumber]

\* this.symptoms.find(s => s.id == symptomId), as a list of one or none
FoundById(list, symptomId) ==
    IF \E k \in 1..Len(list) : list[k].id = symptomId
    THEN << list[CHOOSE k \in 1..Len(list) :
                    list[k].id = symptomId /\ \A j \in 1..(k - 1) : list[j].id # symptomId] >>
    ELSE << >>

\* saveEmergencyWhatsApp once the number is in the profile
EmergencyNumberSaved(profile, number, logs, found) ==
    IF found = << >> THEN NothingSent(profile, logs, "none")
    ELSE sendEmergencyAlert(profile, number, logs, found)

\* saveEmergencyWhatsApp(symptomId) with the trimmed input
saveEmergencyWhatsApp(profile, number, logs, list, symptomId, phoneNumber) ==
    IF phoneNumber = "" THEN NothingSent(profile, logs, "none")
    ELSE EmergencyNumberSaved([profile EXCEPT !.whatsappNumber = phoneNumber], number, logs,
                              FoundById(list, symptomId))

\* saveSettings with the trimmed input: the profile is replaced by one that
\* has the name (and lastUpdated) only
saveSettings(profile, userName) ==
    IF userName = "" THEN profile ELSE [name |-> userName, whatsappNumber |-> ""]

----------------------------------------------------------------------------
(* The HealthTracker as a state machine *)

\* the engine is left as constructed while the HealthTracker is followed
EngineConstructed ==
    /\ healthKnowledge = NullKnowledge
    /\ fetchCount = 1
    /\ fetchResponse = PendingFetch
    /\ now = NowStart
    /\ symptoms = << >>
    /\ recentSymptoms = << >>
    /\ lastCall = NoCall
    /\ earlierCall = NoCall

\* the page after construction, with or without a database manager
InitTracker ==
    /\ EngineConstructed
    /\ PageFresh
    /\ selectedSymptoms = << >>
    /\ trackerSymptoms = << >>
    /\ storedSymptoms = << >>
    /\ dbManager \in { "absent", "present" }
    /\ emergencyAlert = "none"
    /\ dateNow = 0
    /\ lastOp = NoOp

\* a selection operation op with argument input turns the list into selected
Selects(op, input, selected) ==
    /\ Len(selected) <= MaxSelected
    /\ selectedSymptoms' = selected
    /\ lastOp' = [op |-> op, input |-> input, selectedBefore |-> selectedSymptoms]
    /\ UNCHANGED <<trackerSymptoms, storedSymptoms, dbManager, emergencyAlert, dateNow>>
    /\ UNCHANGED <<engineVars, pageVars>>

CallProcessAdditionalSymptoms ==
    \E input \in Phrases \ { "" } :
        Selects("processAdditionalSymptoms", input,
                processAdditionalSymptoms(selectedSymptoms, input))

\* Enter in the input or a click on the Add button, with a non-empty value
CallAddSymptomDirectly ==
    \E input \in Phrases \ { "" } :
        Selects("addSymptomDirectly", input, addSymptomDirectly(selectedSymptoms, input))

\* a click on a symptom tag
CallToggleSymptomSelection ==
    \E symptom \in TagSlugs :
        Selects("toggleSymptomSelection", symptom,
                toggleSymptomSelection(selectedSymptoms, symptom))

\* a click on a suggestion item
CallAddSymptomFromSuggestion ==
    \E symptom \in TagSlugs :
        Selects("addSymptomFromSuggestion", symptom,
                addSymptomFromSuggestion(selectedSymptoms, symptom))

\* a click on the remove button of a selected name
CallRemoveSelectedSymptom ==
    \E k \in 1..Len(selectedSymptoms) :
        Selects("removeSelectedSymptom", selectedSymptoms[k],
                removeSelectedSymptom(selectedSymptoms, selectedSymptoms[k]))

\* resetForm(form): the selected list is emptied
CallResetForm == Selects("resetForm", "", << >>)

NextSelect ==
    \/ CallProcessAdditionalSymptoms
    \/ CallAddSymptomDirectly
    \/ CallToggleSymptomSelection
    \/ CallAddSymptomFromSuggestion
    \/ CallRemoveSelectedSymptom
    \/ CallResetForm

\* the selection operations of the form
SpecSelect == InitTracker /\ [][NextSelect]_vars

emergencySymptoms ==
    <<"chest-pain", "shortness-of-breath", "difficulty-breathing", "severe-headache",
      "loss-of-consciousness", "severe-abdominal-pain", "high-fever">>

highSeverityThreshold == 8

\* variant: the threshold itself does not count
IsEmergencyConditionStrict(symptom) ==
    ArrayIncludes(emergencySymptoms, symptom.type) \/ symptom.severity > highSeverityThreshold

\* the condition of checkEmergencyConditions
IsEmergencyCondition(symptom) ==
    ArrayIncludes(emergencySymptoms, symptom.type) \/ symptom.severity >= highSeverityThreshold

\* the record logSymptom builds for the name at position index (from 0)
SymptomRecord(selected, index, severity, baseId) ==
    [id |-> baseId + index,
     type |-> TypeOfName(selected[index + 1]),
     displayName |-> selected[index + 1],
     severity |-> severity,
     timestamp |-> baseId,
     isMultiple |-> Len(selected) > 1]

\* variant: the new records are put in front
UnshiftRecords(list, records) == records \o list

\* this.symptoms.push(symptom), once per selected name
PushRecords(list, records) == list \o records

\* variant: an empty selection is let through
ValidationNever(selected) == FALSE

\* this.selectedSymptoms.length === 0
ValidationFails(selected) == Len(selected) = 0

\* saveSymptoms rejects: with a database manager the failed write is swallowed
\* by saveToLocalStorage; without one the write is tried again in the catch
\* block and fails again
SaveThrows(manager, writeFails) == manager = "absent" /\ writeFails

\* symptom.severity >= highSeverityThreshold: handleWhatsAppEmergencyAlert is called
NeedsWhatsAppAlert(symptom) == symptom.severity >= highSeverityThreshold

\* what a logSymptom call records of the state it started in
CallRecord(input, severity, writeFails) ==
    [op |-> "logSymptom", input |-> input, severity |-> severity, writeFails |-> writeFails,
     displayBefore |-> emergencyAlert, manager |-> dbManager,
     selectedBefore |-> selectedSymptoms, symptomsBefore |-> trackerSymptoms,
     storedBefore |-> storedSymptoms]

\* the validation failed: the message is shown and the call returns
LogRejected(selected, call) ==
    /\ selectedSymptoms' = selected
    /\ lastOp' = call @@ [records |-> << >>, alerted |-> FALSE, threw |-> FALSE,
                          whatsapp |-> << >>, display |-> emergencyAlert,
                          message |-> "Please select or enter at least one symptom",
                          messageKind |-> "error", formReset |-> FALSE]
    /\ UNCHANGED <<trackerSymptoms, storedSymptoms, emergencyAlert>>
    /\ UNCHANGED <<userProfile, storedNumber, emergencyLogs>>

\* the emergency log after handleWhatsAppEmergencyAlert has been called for each
\* of the records, in order
RECURSIVE LogsAfterAlerts(_, _, _, _)
LogsAfterAlerts(profile, number, logs, records) ==
    IF records = << >> THEN logs
    ELSE LogsAfterAlerts(profile, number,
                         handleWhatsAppEmergencyAlert(profile, number, logs, Head(records)).logs,
                         Tail(records))

\* checkEmergencyConditions has passed the records of severity 8 or more to
\* handleWhatsAppEmergencyAlert
AlertsSent(logs) ==
    /\ Len(logs) <= MaxAlerts
    /\ emergencyLogs' = logs
    /\ UNCHANGED <<userProfile, storedNumber>>

\* the records are pushed and checked, then saved; the catch block of
\* logSymptom shows the failure and returns, otherwise the success message is
\* shown and the form is reset
LogRecords(selected, records, alerts, saveThrows, writeFails, call) ==
    /\ Len(trackerSymptoms) + Len(records) <= MaxLogged
    /\ trackerSymptoms' = PushRecords(trackerSymptoms, records)
    /\ emergencyAlert' = IF alerts THEN "flex" ELSE emergencyAlert
    /\ storedSymptoms' = IF writeFails THEN storedSymptoms ELSE trackerSymptoms'
    /\ selectedSymptoms' = IF saveThrows THEN selected ELSE << >>
    /\ lastOp' = call @@ [records |-> records, alerted |-> alerts, threw |-> FALSE,
                          whatsapp |-> SelectSeq(records, NeedsWhatsAppAlert),
                          display |-> emergencyAlert',
                          message |-> IF saveThrows
                                      THEN "Failed to save symptoms. Please try again."
                                      ELSE IF Len(selected) = 1
                                      THEN "Symptom logged successfully!"
                                      ELSE ToString(Len(selected)) \o " symptoms logged successfully!",
                          messageKind |-> IF saveThrows THEN "error" ELSE "success",
                          formReset |-> ~saveThrows]

\* some record meets the condition of checkEmergencyConditions
SomeEmergency(records) == \E i \in 1..Len(records) : IsEmergencyCondition(records[i])

\* one record per selected name, all with the same severity and base id
RecordsFor(selected, severity, baseId) ==
    [i \in 1..Len(selected) |-> SymptomRecord(selected, i - 1, severity, baseId)]

\* the records are checked for emergencies and saved
LogProcessed(selected, records, writeFails, call) ==
    /\ LogRecords(selected, records, SomeEmergency(records),
                  SaveThrows(dbManager, writeFails), writeFails, call)
    /\ AlertsSent(LogsAfterAlerts(userProfile, storedNumber, emergencyLogs,
                                  SelectSeq(records, NeedsWhatsAppAlert)))

\* logSymptom once the input has been processed into the selected list
LogSelected(selected, severity, t, writeFails, call) ==
    /\ Len(selected) <= MaxSelected
    /\ dateNow' = t
    /\ UNCHANGED <<dbManager, database, login>>
    /\ UNCHANGED engineVars
    /\ IF ValidationFails(selected)
       THEN LogRejected(selected, call)
       ELSE LogProcessed(selected, RecordsFor(selected, severity, t), writeFails, call)

\* logSymptom with the trimmed value of the text input, the slider at severity,
\* the clock at t, and a storage write that fails or not
logSymptom(input, severity, t, writeFails) ==
    LogSelected(IF input # "" THEN processAdditionalSymptoms(selectedSymptoms, input)
                ELSE selectedSymptoms,
                severity, t, writeFails, CallRecord(input, severity, writeFails))

\* the form is submitted
CallLogSymptom ==
    \E input \in LogPhrases, severity \in Severities, t \in dateNow..MaxDateNow,
       writeFails \in BOOLEAN :
        logSymptom(input, severity, t, writeFails)

\* a click on a symptom tag, between submissions
ToggledTo(selected) ==
    /\ Len(selected) <= MaxSelected
    /\ selectedSymptoms' = selected

CallToggleTag ==
    \E symptom \in LogTags :
        /\ ToggledTo(toggleSymptomSelection(selectedSymptoms, symptom))
        /\ UNCHANGED <<trackerSymptoms, storedSymptoms, dbManager, emergencyAlert,
                       dateNow, lastOp>>
        /\ UNCHANGED <<engineVars, pageVars>>

\* the timer of checkEmergencyConditions ends: the alert is hidden
HideEmergencyAlert ==
    /\ emergencyAlert = "flex"
    /\ emergencyAlert' = "none"
    /\ UNCHANGED <<selectedSymptoms, trackerSymptoms, storedSymptoms, dbManager,
                   dateNow, lastOp>>
    /\ UNCHANGED <<engineVars, pageVars>>

\* the lowercase tokens joined by single hyphens, at most n of them
CanonicalSlugs[n \in 1..MaxTokens] ==
    IF n = 1 THEN SlugTokens
    ELSE CanonicalSlugs[n - 1]
         \cup { slug \o "-" \o token : slug \in CanonicalSlugs[n - 1], token \in SlugTokens }

\* the slugs the program itself names
ProgramSlugs == KnownSlugs \cup SeqRange(emergencySymptoms) \cup TagSlugs

\* formatSymptomName of the suggestion engine
engineFormatSymptomName(symptom) == FormattedName(symptom)

\* a canonical slug is about to be formatted
InitSlug ==
    /\ EngineConstructed
    /\ PageFresh
    /\ selectedSymptoms = << >>
    /\ trackerSymptoms = << >>
    /\ storedSymptoms = << >>
    /\ dbManager = "absent"
    /\ emergencyAlert = "none"
    /\ dateNow = 0
    /\ \E slug \in CanonicalSlugs[MaxTokens] \cup ProgramSlugs :
          lastOp = [op |-> "slug", slug |-> slug, text |-> slug, rounds |-> 0]

SlugStep(op, text, rounds) ==
    /\ lastOp' = [op |-> op, slug |-> lastOp.slug, text |-> text, rounds |-> rounds]
    /\ UNCHANGED <<selectedSymptoms, trackerSymptoms, storedSymptoms, dbManager,
                   emergencyAlert, dateNow>>
    /\ UNCHANGED <<engineVars, pageVars>>

\* the slug is formatted for display by the HealthTracker
CallFormatSymptomName ==
    /\ lastOp.op = "slug"
    /\ lastOp.rounds < MaxRounds
    /\ SlugStep("name", formatSymptomName(lastOp.text), lastOp.rounds)

\* the slug is formatted for display by the suggestion engine
CallEngineFormatSymptomName ==
    /\ lastOp.op = "slug"
    /\ lastOp.rounds < MaxRounds
    /\ SlugStep("name", engineFormatSymptomName(lastOp.text), lastOp.rounds)

\* the display name is turned into a type, as logSymptom does
TypeOfDisplayName ==
    /\ lastOp.op = "name"
    /\ SlugStep("slug", TypeOfName(lastOp.text), lastOp.rounds + 1)

NextSlug ==
    \/ CallFormatSymptomName
    \/ CallEngineFormatSymptomName
    \/ TypeOfDisplayName

\* slugs taken to display names and back
SpecSlug == InitSlug /\ [][NextSlug]_vars

\* the phrases looked up on their own: every definition name as written and in
\* lower case, every keyword, and phrases that match nothing or in passing
MatchQueries ==
    DefinitionNames
    \cup SeqRange(LowerNames)
    \cup UNION { SeqRange(symptomDatabase[i].keywords) : i \in 1..Len(symptomDatabase) }
    \cup { "heart", "sore", "mood", "MIGRAINE", "ache", "zzz", "burning eyes" }

\* findBestSymptomMatch(input)
CallFindBestSymptomMatch ==
    \E input \in MatchQueries :
        /\ lastOp' = [op |-> "findBestSymptomMatch", input |-> input,
                      match |-> findBestSymptomMatch(input)]
        /\ UNCHANGED <<selectedSymptoms, trackerSymptoms, storedSymptoms, dbManager,
                       emergencyAlert, dateNow>>
        /\ UNCHANGED <<engineVars, pageVars>>

NextMatch == CallFindBestSymptomMatch

\* phrases resolved against the symptom definitions
SpecMatch == InitTracker /\ [][NextMatch]_vars

NextLog ==
    \/ CallLogSymptom
    \/ CallToggleTag
    \/ HideEmergencyAlert

\* the logging of symptoms
SpecLog == InitTracker /\ [][NextLog]_vars

\* the symptom objects of the service's interface, with a name
NamedSymptoms ==
    [chest |-> [name |-> "Chest Pain", type |-> "chest-pain", severity |-> 5],
     mild |-> [name |-> "Fever", type |-> "fever", severity |-> 3],
     severe |-> [name |-> "Fever", type |-> "fever", severity |-> 9]]

\* the lists sendEmergencyAlert is called with: lists of named symptoms, and
\* the records of the HealthTracker
AlertLists ==
    { << >>, << NamedSymptoms.chest >>, << NamedSymptoms.mild >>,
      << NamedSymptoms.mild, NamedSymptoms.severe >>, trackerSymptoms }

\* what a call records of the profile, the stored number and the log it started with
AlertCall(op, input) ==
    [op |-> op, input |-> input, profileBefore |-> userProfile,
     numberBefore |-> storedNumber, logsBefore |-> emergencyLogs]

\* the stored profile, the stored number and the log after a call, and what
\* the call did
PageStep(profile, number, outcome, call) ==
    /\ Len(outcome.logs) <= MaxAlerts
    /\ userProfile' = profile
    /\ storedNumber' = number
    /\ emergencyLogs' = outcome.logs
    /\ lastOp' = call @@ [opened |-> outcome.opened, prompt |-> outcome.prompt,
                          confirmed |-> outcome.confirmed, threw |-> outcome.threw]
    /\ UNCHANGED <<selectedSymptoms, trackerSymptoms, storedSymptoms, dbManager,
                   emergencyAlert, dateNow, database, login>>
    /\ UNCHANGED engineVars

\* a call whose outcome carries the profile to store
AlertStep(outcome, call) == PageStep(outcome.profile, storedNumber, outcome, call)

\* whatsappService.sendEmergencyAlert(userProfile, symptoms) with the stored profile
CallSendEmergencyAlert ==
    \E alertSymptoms \in AlertLists :
        AlertStep(sendEmergencyAlert(userProfile, storedNumber, emergencyLogs, alertSymptoms),
                  AlertCall("sendEmergencyAlert", alertSymptoms))

\* the ids the emergency setup modal was shown for
AlertedIds ==
    { trackerSymptoms[k].id : k \in { j \in 1..Len(trackerSymptoms) :
                                          NeedsWhatsAppAlert(trackerSymptoms[j]) } }

\* the save button of the emergency setup modal
CallSaveEmergencyWhatsApp ==
    \E symptomId \in AlertedIds, phoneNumber \in NumberPool :
        AlertStep(saveEmergencyWhatsApp(userProfile, storedNumber, emergencyLogs,
                                        trackerSymptoms, symptomId, phoneNumber),
                  AlertCall("saveEmergencyWhatsApp", phoneNumber))

\* the new-user setup form is saved
CallSaveNewUserSetup ==
    \E name \in NamePool, whatsappNumber \in NumberPool :
        PageStep(saveNewUserSetup(userProfile, name, whatsappNumber), storedNumber,
                 NothingSent(userProfile, emergencyLogs, "none"),
                 AlertCall("saveNewUserSetup", whatsappNumber))

\* the number typed into the service's modal is stored and put in the profile
ServiceNumberSaved(formattedNumber, authUser, call) ==
    PageStep(NumberSaved(userProfile, formattedNumber, authUser), formattedNumber,
             NothingSent(userProfile, emergencyLogs, "none"), call)

\* the save button of the service's modal, signed in as authUser or not
ServiceNumberEntered(phoneNumber, cleanNumber, authUser) ==
    IF phoneNumber # "" /\ ServiceNumberValid(cleanNumber)
    THEN ServiceNumberSaved(ServiceNumber(cleanNumber), authUser,
                            AlertCall("saveWhatsAppNumber", phoneNumber))
    ELSE PageStep(userProfile, storedNumber, NothingSent(userProfile, emergencyLogs, "none"),
                  AlertCall("saveWhatsAppNumber", phoneNumber))

CallSaveWhatsAppNumber ==
    \E phoneNumber \in NumberPool, authUser \in { "", "admin" } :
        ServiceNumberEntered(phoneNumber, DigitsOnly(phoneNumber), authUser)

\* the settings form is saved
CallSaveSettings ==
    \E userName \in NamePool :
        PageStep(saveSettings(userProfile, userName), storedNumber,
                 NothingSent(userProfile, emergencyLogs, "none"),
                 AlertCall("saveSettings", userName))

\* a Fever is logged at a severity below or above the threshold
CallLogFever ==
    \E severity \in { 5, 9 } : logSymptom("fever", severity, dateNow, FALSE)

NextAlert ==
    \/ CallLogFever
    \/ CallSendEmergencyAlert
    \/ CallSaveEmergencyWhatsApp
    \/ CallSaveNewUserSetup
    \/ CallSaveWhatsAppNumber
    \/ CallSaveSettings

\* the page after construction, with a database manager
InitAlert ==
    /\ InitTracker
    /\ dbManager = "present"

\* the profile, the WhatsApp number and the emergency alerts
SpecAlert == InitAlert /\ [][NextAlert]_vars

----------------------------------------------------------------------------
(* The DatabaseManager: symptoms saved and loaded *)

\* number of records in a list that is saved
MaxStored == 2

\* the records that are saved
StoredRecords ==
    { [id |-> 1, type |-> "fever", severity |-> 5],
      [id |-> 2, type |-> "headache", severity |-> 9] }

\* the lists saveSymptoms is called with, the empty list among them
StoredLists == UNION { [1..n -> StoredRecords] : n \in 0..MaxStored }

\* what database/symptoms.json holds under data.symptoms
FilePool ==
    { << >>,
      << [id |-> 7, type |-> "cough", severity |-> 4, userId |-> "default"] >>,
      << [id |-> 7, type |-> "cough", severity |-> 4, userId |-> "default"],
         [id |-> 8, type |-> "nausea", severity |-> 2, userId |-> "guest"] >> }

\* saveToLocalStorage('symptoms', data): the item after the call; a write that
\* throws is caught and leaves the item as it was
saveToLocalStorage(item, data, writeFails) == IF writeFails THEN item ELSE data

\* loadFromLocalStorage('symptoms'): the parsed item; an absent item gives
\* null, which the callers treat as they treat the empty list
loadFromLocalStorage(item) == item

\* data.symptoms.filter(symptom => symptom.userId === userId)
IsOfUser(symptom) == symptom.userId = "default"

\* localData && localData.length > 0
LoadsCached(localData) == Len(localData) > 0

\* loadSymptoms outside fallback mode: the cached list when it is not empty,
\* else the records of the default user in symptoms.json, which are cached; the
\* cached list again when the file cannot be loaded
LoadOnline(localData, file, fileLoads, writeFails) ==
    IF LoadsCached(localData) THEN [returned |-> localData, item |-> localData]
    ELSE IF fileLoads
    THEN [returned |-> SelectSeq(file, IsOfUser),
          item |-> saveToLocalStorage(localData, SelectSeq(file, IsOfUser), writeFails)]
    ELSE [returned |-> localData, item |-> localData]

\* loadSymptoms(): what is returned, and the item afterwards
loadSymptoms(db, item, fileLoads, writeFails) ==
    IF db.fallbackMode
    THEN [returned |-> loadFromLocalStorage(item), item |-> item]
    ELSE LoadOnline(loadFromLocalStorage(item), db.fileSymptoms, fileLoads, writeFails)

\* saveSymptoms(symptoms): in fallback mode the result of saveToLocalStorage is
\* returned; otherwise true once symptoms.json has been loaded, and the result
\* of saveToLocalStorage when it could not be
saveSymptomsReturns(db, fileLoads, writeFails) ==
    IF ~db.fallbackMode /\ fileLoads THEN TRUE ELSE ~writeFails

StoreStep(item, db, op) ==
    /\ storedSymptoms' = item
    /\ database' = db
    /\ lastOp' = op
    /\ UNCHANGED <<selectedSymptoms, trackerSymptoms, dbManager, emergencyAlert, dateNow,
                   userProfile, storedNumber, emergencyLogs, login>>
    /\ UNCHANGED engineVars

\* dbManager.saveSymptoms(list); every branch ends in saveToLocalStorage
CallSaveSymptoms ==
    \E list \in StoredLists, fileLoads \in BOOLEAN, writeFails \in BOOLEAN :
        StoreStep(saveToLocalStorage(storedSymptoms, list, writeFails), database,
                  [op |-> "saveSymptoms", symptoms |-> list, wrote |-> ~writeFails,
                   returned |-> saveSymptomsReturns(database, fileLoads, writeFails)])

\* the call returns loaded.returned and leaves loaded.item in storage
Loaded(loaded, saved) ==
    StoreStep(loaded.item, database,
              [op |-> "loadSymptoms", returned |-> loaded.returned, saved |-> saved,
               fallbackMode |-> database.fallbackMode, file |-> database.fileSymptoms])

\* the list of the save that came just before and was written, if any
JustSaved == IF lastOp.op = "saveSymptoms" /\ lastOp.wrote THEN << lastOp.symptoms >> ELSE << >>

\* dbManager.loadSymptoms()
CallLoadSymptoms ==
    \E fileLoads \in BOOLEAN, writeFails \in BOOLEAN :
        Loaded(loadSymptoms(database, storedSymptoms, fileLoads, writeFails),
               JustSaved)

\* the offline event of the window
GoOffline ==
    /\ ~database.fallbackMode
    /\ StoreStep(storedSymptoms, [database EXCEPT !.fallbackMode = TRUE], [op |-> "offline"])

\* resetWellnessData of the login page removes the item
CallResetWellnessData ==
    StoreStep(<< >>, database, [op |-> "resetWellnessData"])

\* the manager after init() has settled, in fallback mode or not, with some
\* content of symptoms.json
InitStore ==
    /\ EngineConstructed
    /\ selectedSymptoms = << >>
    /\ trackerSymptoms = << >>
    /\ storedSymptoms = << >>
    /\ dbManager = "present"
    /\ emergencyAlert = "none"
    /\ dateNow = 0
    /\ lastOp = NoOp
    /\ userProfile = NoProfile
    /\ storedNumber = ""
    /\ emergencyLogs = << >>
    /\ login = LoginPageLoaded
    /\ \E fallbackMode \in BOOLEAN, file \in FilePool :
          database = [fallbackMode |-> fallbackMode, fileSymptoms |-> file]

NextStore ==
    \/ CallSaveSymptoms
    \/ CallLoadSymptoms
    \/ GoOffline
    \/ CallResetWellnessData

\* symptoms saved and loaded through the DatabaseManager
SpecStore == InitStore /\ [][NextStore]_vars

----------------------------------------------------------------------------
(* The login page *)

\* number of calls of handleLogin that get past the validation
MaxAttempts == 2

\* this.validCredentials
validCredentials ==
    <<[username |-> "admin", password |-> "password123", role |-> "admin"],
      [username |-> "user", password |-> "password123", role |-> "user"],
      [username |-> "doctor", password |-> "password123", role |-> "doctor"],
      [username |-> "patient", password |-> "password123", role |-> "patient"]>>

\* the trimmed values typed into the username and password fields
UsernamePool == { "", "admin" }

PasswordPool == { "", "password123", "secret" }

\* authenticateUser: the matching credentials, as a list of one or none
authenticateUser(username, password) ==
    SelectSeq(validCredentials,
              LAMBDA cred : cred.username = username /\ cred.password = password)

\* createSession: the session is put in localStorage under rememberMe, in
\* sessionStorage otherwise
createSession(l, user, rememberMe) ==
    IF rememberMe
    THEN [l EXCEPT !.localSession =
                       << [username |-> user.username, role |-> user.role, rememberMe |-> TRUE] >>]
    ELSE [l EXCEPT !.sessionSession =
                       << [username |-> user.username, role |-> user.role, rememberMe |-> FALSE] >>]

\* setLoadingState(loading): the button is disabled while loading
setLoadingState(l, loading) == [l EXCEPT !.disabled = loading]

\* handleLogin up to the delay: the form is read; with an empty field the error
\* is shown and the call returns; otherwise the button is disabled and the call
\* waits with the values it read
handleLoginStarts(l) ==
    IF l.username = "" \/ l.password = "" THEN l
    ELSE [setLoadingState(l, TRUE) EXCEPT
              !.pending = Append(l.pending, [username |-> l.username, password |-> l.password,
                                             rememberMe |-> l.rememberMe]),
              !.started = l.started + 1]

\* handleLogin after the delay, for the call that has waited longest: the
\* session is created and the redirect scheduled, or the button is enabled again
handleLoginResumes(l, found, attempt) ==
    IF found # << >>
    THEN [createSession(l, found[1], attempt.rememberMe) EXCEPT
              !.pending = Tail(l.pending), !.redirectScheduled = TRUE]
    ELSE [setLoadingState(l, FALSE) EXCEPT !.pending = Tail(l.pending)]

LoginStep(l, item) ==
    /\ l.started <= MaxAttempts
    /\ login' = l
    /\ storedSymptoms' = item
    /\ UNCHANGED <<selectedSymptoms, trackerSymptoms, dbManager, emergencyAlert, dateNow,
                   lastOp, userProfile, storedNumber, emergencyLogs, database>>
    /\ UNCHANGED engineVars

\* the fields are filled in
FillForm ==
    \E username \in UsernamePool, password \in PasswordPool :
        /\ ~login.redirected
        /\ LoginStep([login EXCEPT !.username = username, !.password = password],
                     storedSymptoms)

\* the rememberMe box is clicked
ToggleRememberMe ==
    /\ ~login.redirected
    /\ LoginStep([login EXCEPT !.rememberMe = ~login.rememberMe], storedSymptoms)

\* the submit event of the form: a click on the button, which a disabled
\* button does not give
SubmitForm ==
    /\ ~login.redirected
    /\ ~login.disabled
    /\ LoginStep(handleLoginStarts(login), storedSymptoms)

\* the keypress listener of the document: Enter calls handleLogin
PressEnter ==
    /\ ~login.redirected
    /\ LoginStep(handleLoginStarts(login), storedSymptoms)

\* the call resumes; a successful one runs resetWellnessData
Resumed(found) ==
    LoginStep(handleLoginResumes(login, found, Head(login.pending)),
              IF found # << >> THEN << >> ELSE storedSymptoms)

\* the delay of the oldest waiting call ends
DelayEnds ==
    /\ ~login.redirected
    /\ login.pending # << >>
    /\ Resumed(authenticateUser(Head(login.pending).username, Head(login.pending).password))

\* the timer set after a successful login ends: the page is left, and the
\* calls still waiting go with it
Redirect ==
    /\ ~login.redirected
    /\ login.redirectScheduled
    /\ LoginStep([login EXCEPT !.redirected = TRUE, !.pending = << >>], storedSymptoms)

NextLogin ==
    \/ FillForm
    \/ ToggleRememberMe
    \/ SubmitForm
    \/ PressEnter
    \/ DelayEnds
    \/ Redirect

\* the login page from its load, with no session stored, to the redirect
SpecLogin == InitTracker /\ [][NextLogin]_vars

----------------------------------------------------------------------------
(* Properties *)

\* the list the analyses are run on ([...symptoms, ...recentSymptoms])
AllInput == symptoms \o recentSymptoms

GenerateReturned ==
    /\ lastCall.op = "generateIntelligentSuggestions"
    /\ lastCall.out.status = "returned"

\* generateIntelligentSuggestions returned with the knowledge tables loaded
GenerateReturnedLoaded == GenerateReturned /\ HasTables(lastCall.knowledge)

\* the suggestions before deduplication of the call recorded in lastCall
Produced == CollectSuggestions(symptoms, recentSymptoms, lastCall.knowledge, lastCall.clock)

\* position at which a suggestion with this id comes first in list
FirstWithId(list, id) ==
    CHOOSE k \in 1..Len(list) : list[k].id = id /\ \A j \in 1..(k - 1) : list[j].id # id

HasId(list, id) == \E k \in 1..Len(list) : list[k].id = id

Rank(priority) ==
    CASE priority = "critical" -> 0 [] priority = "high" -> 1
      [] priority = "medium" -> 2 [] priority = "low" -> 3

\* C1: the Emergency Assessor returns a non-empty result if and only if some
\* record has severity >= 8 or one of the critical types
C1_EmergencyIff ==
    lastCall.op = "assessEmergencySymptoms" =>
        ( Len(lastCall.out) > 0
          <=> \E i \in 1..Len(AllInput) :
                \/ AllInput[i].severity >= 8
                \/ AllInput[i].type \in {"chest-pain", "shortness-breath", "severe-headache"} )

\* the assessor fired on a list with no severity of 8 or more, and it stayed
\* silent on a non-empty list
C1_Witness ==
    /\ lastCall.op = "assessEmergencySymptoms"
    /\ Len(lastCall.out) > 0
    /\ \A i \in 1..Len(AllInput) : AllInput[i].severity < 8

\* C2: when the assessor triggers it emits exactly one suggestion, critical and
\* of confidence 95, however many records trigger; the aggregator's list then
\* holds exactly one critical suggestion, of confidence 95 (so for the single
\* record chest-pain of severity 9)
C2_OneCriticalSuggestion ==
    /\ (lastCall.op = "assessEmergencySymptoms" /\ Len(lastCall.out) > 0) =>
          /\ Len(lastCall.out) = 1
          /\ lastCall.out[1].priority = "critical"
          /\ lastCall.out[1].confidence = 95
    /\ ( /\ lastCall.op = "generateIntelligentSuggestions"
         /\ HasTables(lastCall.knowledge)
         /\ \E i \in 1..Len(AllInput) :
                \/ AllInput[i].severity >= 8
                \/ AllInput[i].type \in {"chest-pain", "shortness-breath", "severe-headache"} ) =>
          /\ lastCall.out.status = "returned"
          /\ Cardinality({ i \in 1..Len(lastCall.out.list) :
                             lastCall.out.list[i].priority = "critical" }) = 1
          /\ \A i \in 1..Len(lastCall.out.list) :
                lastCall.out.list[i].priority = "critical" =>
                    lastCall.out.list[i].confidence = 95

\* the aggregator was called on the single record chest-pain, severity 9
C2_Witness ==
    /\ GenerateReturnedLoaded
    /\ recentSymptoms = <<>>
    /\ Len(symptoms) = 1
    /\ symptoms[1].type = "chest-pain" /\ symptoms[1].severity = 9
    /\ \E i \in 1..Len(lastCall.out.list) : lastCall.out.list[i].id = "emergency_care"

\* C3: the returned list has no two suggestions with the same id, and each
\* suggestion in it is the first one produced with its id
C3_UniqueFirstWins ==
    GenerateReturnedLoaded =>
        LET out == lastCall.out.list
            produced == Produced
        IN  /\ \A i, j \in 1..Len(out) : i # j => out[i].id # out[j].id
            /\ \A i \in 1..Len(out) :
                  /\ HasId(produced, out[i].id)
                  /\ out[i] = produced[FirstWithId(produced, out[i].id)]
            /\ \A k \in 1..Len(produced) : HasId(out, produced[k].id)

\* two different suggestions were produced under one id
C3_Witness ==
    /\ GenerateReturnedLoaded
    /\ LET produced == Produced
       IN  \E j, k \in 1..Len(produced) :
              j < k /\ produced[j].id = produced[k].id /\ produced[j] # produced[k]

\* C4: the returned list is in non-decreasing priority rank
C4_SortedByPriority ==
    GenerateReturned =>
        LET out == lastCall.out.list
        IN  \A i, j \in 1..Len(out) :
                i < j => Rank(out[i].priority) <= Rank(out[j].priority)

\* a list was returned whose suggestions were produced out of priority order
C4_Witness ==
    /\ GenerateReturnedLoaded
    /\ LET produced == Produced
       IN  \E j, k \in 1..Len(produced) :
              j < k /\ Rank(produced[j].priority) > Rank(produced[k].priority)

\* C5: two returned suggestions of equal priority are in the order in which
\* the sub-analyses produced them
C5_StableOrder ==
    GenerateReturnedLoaded =>
        LET out == lastCall.out.list
            produced == Produced
        IN  \A i, j \in 1..Len(out) :
                (i < j /\ out[i].priority = out[j].priority /\ out[i].id # out[j].id) =>
                    /\ HasId(produced, out[i].id)
                    /\ HasId(produced, out[j].id)
                    /\ FirstWithId(produced, out[i].id) < FirstWithId(produced, out[j].id)

\* equal-priority suggestions of different sub-analyses were returned, with a
\* higher-priority one produced after them
C5_Witness ==
    /\ GenerateReturnedLoaded
    /\ LET out == lastCall.out.list
           produced == Produced
       IN  /\ \E i, j \in 1..Len(out) :
                i < j /\ out[i].priority = out[j].priority /\ out[i].category # out[j].category
           /\ \E j, k \in 1..Len(produced) :
                j < k /\ Rank(produced[j].priority) > Rank(produced[k].priority)

IdsOf(list) == { list[i].id : i \in 1..Len(list) }

\* the last two calls were generateIntelligentSuggestions, both with the
\* knowledge tables loaded (the argument lists never change)
TwoGenerateCalls ==
    /\ GenerateReturnedLoaded
    /\ earlierCall.op = "generateIntelligentSuggestions"
    /\ HasTables(earlierCall.knowledge)
    /\ earlierCall.out.status = "returned"

SameSideOfWindow(clock1, clock2) ==
    \A i \in 1..Len(AllInput) :
        (AllInput[i].timestamp >= clock1 - 3) <=> (AllInput[i].timestamp >= clock2 - 3)

C7_LoadingPlaceholder ==
    (lastCall.op = "generateIntelligentSuggestions" /\ lastCall.knowledge = [kind |-> "null"]) =>
        /\ lastCall.out.status = "returned"
        /\ Len(lastCall.out.list) = 1
        /\ lastCall.out.list[1].id = "loading"

\* the aggregator was called on a non-empty input before the load settled
C7_Witness ==
    /\ lastCall.op = "generateIntelligentSuggestions"
    /\ lastCall.knowledge = [kind |-> "null"]
    /\ Len(symptoms) > 0 /\ Len(recentSymptoms) > 0
    /\ lastCall.out.status = "returned"

\* the fetch failed: it rejected, the response was not OK, or the body did
\* not parse
LoadFailed(o) == o.rejects \/ ~o.ok \/ o.body = "unparsable"

\* C8 as claimed: the fetch is issued once; once it settles healthKnowledge is
\* non-null, and after every kind of load failure it is the hardcoded default
C8_FailureGivesDefault ==
    /\ fetchCount = 1
    /\ fetchResponse # PendingFetch =>
          /\ healthKnowledge # NullKnowledge
          /\ LoadFailed(fetchResponse) =>
                healthKnowledge = [kind |-> "knowledge", symptoms |-> {"headache"},
                                   medications |-> {"acetaminophen"}]

\* matches of the user slugs against the pattern slugs, substring either way
MatchCount(types, diseaseSymptoms) ==
    Cardinality({ i \in 1..Len(types) :
        \E j \in 1..Len(diseaseSymptoms) :
            \/ StringIncludes(types[i], diseaseSymptoms[j])
            \/ StringIncludes(diseaseSymptoms[j], types[i]) })

\* C9: the scorer emits a prediction for a pattern only if the match score is
\* at least the pattern's threshold and at least 2 user slugs match
C9_EmittedOnlyAboveThresholdAndFloor ==
    lastCall.op = "predictPotentialConditions" =>
        \A p \in 1..Len(getDiseasePatterns) :
            LET pattern == getDiseasePatterns[p]
                matched == MatchCount(TypesOf(AllInput), pattern.symptoms)
            IN  HasId(lastCall.out, "disease_prediction_" \o pattern.name) =>
                    /\ matched * 10 >= pattern.threshold * Len(pattern.symptoms)
                    /\ matched >= 2

\* the scorer emitted a prediction, and passed over a pattern that two
\* slugs matched below its threshold
C9_Witness ==
    /\ lastCall.op = "predictPotentialConditions"
    /\ \E i \in 1..Len(lastCall.out) : lastCall.out[i].category = "prediction"
    /\ \E p \in 1..Len(getDiseasePatterns) :
          /\ MatchCount(TypesOf(AllInput), getDiseasePatterns[p].symptoms) >= 2
          /\ ~HasId(lastCall.out, "disease_prediction_" \o getDiseasePatterns[p].name)

\* C10 as claimed: when all the records have one and the same type, no
\* disease prediction is emitted, by the scorer or through the aggregator
C10_SingleTypeNoPrediction ==
    (\A i, j \in 1..Len(AllInput) : AllInput[i].type = AllInput[j].type) =>
        /\ lastCall.op = "predictPotentialConditions" =>
              \A k \in 1..Len(lastCall.out) : lastCall.out[k].category # "prediction"
        /\ GenerateReturnedLoaded =>
              \A k \in 1..Len(lastCall.out.list) : lastCall.out.list[k].category # "prediction"

\* C11: for every disease pattern and every list of user slugs, the score of
\* the list with one more slug added is at least the score of the list,
\* whether or not the added slug matches the pattern
C11_ScoreMonotonic ==
    lastCall.op = "calculatePatternMatch" =>
        lastCall.after.num * lastCall.before.den >= lastCall.before.num * lastCall.after.den

\* a slug that matches the pattern only as a substring was added to a
\* non-empty list, and the score went up
C11_Witness ==
    /\ lastCall.op = "calculatePatternMatch"
    /\ Len(symptoms) > 0
    /\ lastCall.added = "headache"
    /\ getDiseasePatterns[lastCall.pattern].name = "migraine"
    /\ lastCall.after.num * lastCall.before.den > lastCall.before.num * lastCall.after.den

\* C12: the confidence of every emitted disease prediction is 95 when
\* matchScore x confidenceMultiplier is 95 or more, and that product rounded to
\* the nearest integer otherwise; it is between 0 and 95
C12_ConfidenceCapped ==
    lastCall.op = "predictPotentialConditions" =>
        \A k \in 1..Len(lastCall.out) :
            lastCall.out[k].category = "prediction" =>
                \E p \in 1..Len(getDiseasePatterns) :
                    LET pattern == getDiseasePatterns[p]
                        m == MatchCount(TypesOf(AllInput), pattern.symptoms)
                        x2 == 2 * m * pattern.confidenceMultiplier
                        den2 == 2 * Len(pattern.symptoms)
                        c == lastCall.out[k].confidence
                    IN  /\ lastCall.out[k].id = "disease_prediction_" \o pattern.name
                        /\ c \in 0..95
                        /\ IF x2 >= 95 * den2 THEN c = 95
                           ELSE c * den2 - Len(pattern.symptoms) <= x2
                                /\ x2 < c * den2 + Len(pattern.symptoms)

\* a prediction was emitted whose score, from repeated slugs, is above 1 and
\* whose product with the multiplier is above 95
C12_Witness ==
    /\ lastCall.op = "predictPotentialConditions"
    /\ \E k \in 1..Len(lastCall.out), p \in 1..Len(getDiseasePatterns) :
          /\ lastCall.out[k].id = "disease_prediction_" \o getDiseasePatterns[p].name
          /\ MatchCount(TypesOf(AllInput), getDiseasePatterns[p].symptoms)
                 * getDiseasePatterns[p].confidenceMultiplier
               > 95 * Len(getDiseasePatterns[p].symptoms)
          /\ lastCall.out[k].confidence = 95

\* C13: with knowledge loaded, the returned list holds the suggestion
\* infection_pattern exactly when the input has a record of type fever and a
\* record of type headache, and it then has priority high and confidence 85
C13_InfectionPattern ==
    GenerateReturnedLoaded =>
        LET out == lastCall.out.list
        IN  /\ HasId(out, "infection_pattern")
                <=> ( /\ \E i \in 1..Len(AllInput) : AllInput[i].type = "fever"
                      /\ \E i \in 1..Len(AllInput) : AllInput[i].type = "headache" )
            /\ \A k \in 1..Len(out) :
                  out[k].id = "infection_pattern" =>
                      out[k].priority = "high" /\ out[k].confidence = 85

\* the call on the records fever of severity 5 and headache of severity 4
C13_Witness ==
    /\ GenerateReturnedLoaded
    /\ symptoms = << [type |-> "fever", severity |-> 5, timestamp |-> 1],
                     [type |-> "headache", severity |-> 4, timestamp |-> 0] >>
    /\ recentSymptoms = <<>>
    /\ HasId(lastCall.out.list, "infection_pattern")

\* C14: the selected-symptom list never holds two names that are equal
\* ignoring case, whatever selection operations have run
C14_NoDuplicateIgnoringCase ==
    \A i, j \in 1..Len(selectedSymptoms) :
        i # j => toLowerCase(selectedSymptoms[i]) # toLowerCase(selectedSymptoms[j])

\* a name was typed that differs only in case from a selected one, and the
\* list was left as it was
C14_Witness ==
    /\ lastOp.op = "addSymptomDirectly"
    /\ lastOp.input = "Burning Eyes"
    /\ \E i \in 1..Len(lastOp.selectedBefore) : lastOp.selectedBefore[i] = "Burning eyes"
    /\ selectedSymptoms = lastOp.selectedBefore

\* the first character of the name, and every character after a space or a
\* hyphen, is not a lowercase letter
TitleCased(name) ==
    \A i \in 1..Len(name) :
        (i = 1 \/ CharAt(name, i - 1) = " " \/ CharAt(name, i - 1) = "-")
            => ~IsLowerLetter(CharAt(name, i))

\* the part matches no definition and passes the validity checks
IsCustomPart(part) == BestSymptomMatch(part) = NoSymptom /\ ValidSymptomInput(part)

\* C15 as claimed: after a typed phrase that matches no definition and passes
\* the validity checks, the selected list holds its name with every
\* hyphen-separated and every space-separated token title-cased
C15_CustomTitleCased ==
    lastOp.op \in { "processAdditionalSymptoms", "addSymptomDirectly" } =>
        \A p \in 1..Len(SplitParts(lastOp.input)) :
            LET part == SplitParts(lastOp.input)[p]
            IN  IsCustomPart(part) =>
                    \E i \in 1..Len(selectedSymptoms) :
                        /\ LowerCased(selectedSymptoms[i])
                               = LowerCased(join(split(part, "-"), " "))
                        /\ TitleCased(selectedSymptoms[i])

\* C16: a canonical slug formatted into a display name and turned back into
\* a type is the slug again, in the first round trip and in every later one
C16_SlugRoundTrip ==
    lastOp.op = "slug" => lastOp.text = lastOp.slug

\* a slug of several tokens has been through two round trips
C16_Witness ==
    /\ lastOp.op = "slug"
    /\ lastOp.rounds = 2
    /\ lastOp.slug = "shortness-of-breath"
    /\ lastOp.text = "shortness-of-breath"

\* the selected names logSymptom works on: the selected list with the typed
\* input processed into it
NamesLogged ==
    IF lastOp.input = "" THEN lastOp.selectedBefore
    ELSE processAdditionalSymptoms(lastOp.selectedBefore, lastOp.input)

\* C17: after logSymptom every record that was in the list is still there,
\* unchanged and at the same position, and the new records, one per selected
\* symptom, come after them
C17_AppendOnly ==
    lastOp.op = "logSymptom" =>
        /\ Len(trackerSymptoms) >= Len(lastOp.symptomsBefore)
        /\ \A i \in 1..Len(lastOp.symptomsBefore) :
              trackerSymptoms[i] = lastOp.symptomsBefore[i]
        /\ Len(trackerSymptoms) - Len(lastOp.symptomsBefore) = Len(NamesLogged)
        /\ \A k \in 1..Len(NamesLogged) :
              trackerSymptoms[Len(lastOp.symptomsBefore) + k].displayName = NamesLogged[k]

\* a symptom was logged into a list that already held a record
C17_Witness ==
    /\ lastOp.op = "logSymptom"
    /\ Len(lastOp.symptomsBefore) > 0
    /\ Len(trackerSymptoms) > Len(lastOp.symptomsBefore)
    /\ trackerSymptoms[1] # trackerSymptoms[Len(trackerSymptoms)]

\* no part of the typed input matches a definition or is a valid custom symptom
NoPartResolves(parts) ==
    \A p \in 1..Len(parts) :
        /\ findBestSymptomMatch(parts[p]) = NoSymptom
        /\ ~isValidSymptomInput(parts[p])

ResolvesToNothing(input) == NoPartResolves(PartsOf(input))

\* C18: logSymptom with nothing selected and an input that resolves to no
\* symptom shows the error message, throws nothing, and leaves the symptom
\* list and the stored records as they were
C18_ValidationAborts ==
    ( /\ lastOp.op = "logSymptom"
      /\ lastOp.selectedBefore = << >>
      /\ ResolvesToNothing(lastOp.input) ) =>
        /\ lastOp.messageKind = "error"
        /\ lastOp.message = "Please select or enter at least one symptom"
        /\ ~lastOp.threw
        /\ trackerSymptoms = lastOp.symptomsBefore
        /\ storedSymptoms = lastOp.storedBefore

\* a stop word was submitted with nothing selected, after records had been
\* logged and stored
C18_Witness ==
    /\ lastOp.op = "logSymptom"
    /\ lastOp.selectedBefore = << >>
    /\ lastOp.input = "and"
    /\ lastOp.messageKind = "error"
    /\ Len(trackerSymptoms) > 0
    /\ Len(storedSymptoms) > 0

\* C19 as claimed: when the storage write fails during logSymptom, with or
\* without a database manager, the records are in the list, the success
\* message is shown, the form and the selection are reset, and no error is
\* shown
C19_WriteFailureIsSilent ==
    ( /\ lastOp.op = "logSymptom"
      /\ lastOp.writeFails
      /\ Len(lastOp.records) > 0 ) =>
        /\ trackerSymptoms = lastOp.symptomsBefore \o lastOp.records
        /\ lastOp.messageKind = "success"
        /\ lastOp.formReset

\* C20: logSymptom makes the emergency alert appear when a logged record has
\* severity 8 or more or is Chest Pain or Shortness of Breath; when no logged
\* record has severity 8 or more or a type of the emergency list, the call
\* leaves the alert as it was
C20_EmergencyAlertShown ==
    (lastOp.op = "logSymptom" /\ Len(lastOp.records) > 0) =>
        LET qualifies(r) ==
                \/ r.severity >= 8
                \/ r.type \in { "chest-pain", "shortness-of-breath", "difficulty-breathing",
                                "severe-headache", "loss-of-consciousness",
                                "severe-abdominal-pain", "high-fever" }
            named(r) == toLowerCase(r.displayName) \in { "chest pain", "shortness of breath" }
        IN  /\ (\E i \in 1..Len(lastOp.records) :
                    lastOp.records[i].severity >= 8 \/ named(lastOp.records[i]))
                => (lastOp.alerted /\ lastOp.display = "flex")
            /\ (\A i \in 1..Len(lastOp.records) : ~qualifies(lastOp.records[i]))
                => (~lastOp.alerted /\ lastOp.display = lastOp.displayBefore)

\* Chest Pain was logged at severity 5 while the alert was hidden, and the
\* alert appeared
C20_Witness ==
    /\ lastOp.op = "logSymptom"
    /\ lastOp.severity = 5
    /\ \E i \in 1..Len(lastOp.records) : lastOp.records[i].displayName = "Chest Pain"
    /\ lastOp.displayBefore = "none"
    /\ lastOp.display = "flex"

\* the stage the classification gives with matched counted as the match score
\* counts it
StageByMatchCount(types, pattern) ==
    IF (\E i \in 1..Len(types) : ArrayIncludes(pattern.earlySymptoms, types[i]))
       /\ MatchCount(types, pattern.symptoms) <= 2
    THEN "Early stage - symptoms just beginning"
    ELSE IF MatchCount(types, pattern.symptoms) * 10 >= Len(pattern.symptoms) * 7
    THEN "Active stage - full symptom presentation"
    ELSE "Developing stage - symptoms progressing"

\* C21 as claimed: the stage of every emitted prediction is Early when an early
\* symptom of the pattern is among the user's slugs and at most 2 slugs match,
\* otherwise Active when the matched count is at least 70% of the pattern's
\* size, otherwise Developing, with the matched count of the match score
C21_StageByScoreCount ==
    lastCall.op = "predictPotentialConditions" =>
        \A k \in 1..Len(lastCall.out), p \in 1..Len(getDiseasePatterns) :
            lastCall.out[k].id = "disease_prediction_" \o getDiseasePatterns[p].name =>
                lastCall.out[k].stage = StageByMatchCount(TypesOf(AllInput), getDiseasePatterns[p])

\* the definitions whose name is the query
ExactHits(query) == { i \in 1..Len(symptomDatabase) : LowerNames[i] = query }

\* the definitions whose name contains the query or is contained in it
PartialHits(query) ==
    { i \in 1..Len(symptomDatabase) :
        StringIncludes(LowerNames[i], query) \/ StringIncludes(query, LowerNames[i]) }

\* the definitions with a keyword that contains the query or is contained in it
KeywordHits(query) ==
    { i \in 1..Len(symptomDatabase) :
        \E k \in 1..Len(symptomDatabase[i].keywords) :
            \/ StringIncludes(symptomDatabase[i].keywords[k], query)
            \/ StringIncludes(query, symptomDatabase[i].keywords[k]) }

\* match is a definition of the first non-empty set, or nothing when all are empty
FromFirstRule(match, exact, partial, keyword) ==
    IF exact # {} THEN \E i \in exact : match = symptomDatabase[i]
    ELSE IF partial # {} THEN \E i \in partial : match = symptomDatabase[i]
    ELSE IF keyword # {} THEN \E i \in keyword : match = symptomDatabase[i]
    ELSE match = NoSymptom

MatchedInOrder(match, query) ==
    FromFirstRule(match, ExactHits(query), PartialHits(query), KeywordHits(query))

\* C22: findBestSymptomMatch returns a definition whose name equals the phrase
\* ignoring case if there is one, otherwise one whose name contains the phrase
\* or is contained in it if there is one, otherwise one with such a keyword,
\* otherwise nothing
C22_FirstRuleWins ==
    lastOp.op = "findBestSymptomMatch" =>
        MatchedInOrder(lastOp.match, LowerCased(lastOp.input))

\* "heart" resolved to Heartburn by its name, although the earlier definition
\* Chest Pain has the keyword heart
C22_Witness ==
    /\ lastOp.op = "findBestSymptomMatch"
    /\ lastOp.input = "heart"
    /\ lastOp.match.name = "Heartburn"
    /\ \E i \in KeywordHits("heart") : symptomDatabase[i].name = "Chest Pain"

\* C24 as claimed: for every record logSymptom has logged, the engine's
\* Emergency Assessor fires on the record exactly when checkEmergencyConditions
\* shows the on-screen alert for it
C24_SameEmergencyInBothModules ==
    lastOp.op = "logSymptom" =>
        \A i \in 1..Len(lastOp.records) :
            Len(assessEmergencySymptoms(<< lastOp.records[i] >>)) > 0
                <=> IsEmergencyCondition(lastOp.records[i])

\* the pattern meets its threshold and the floor of 2 with matched matches,
\* and matched x confidenceMultiplier / size is below 59.5, so that the
\* confidence is below 60
EmittedBelow60(matched, pattern) ==
    /\ matched * 10 >= pattern.threshold * Len(pattern.symptoms)
    /\ matched >= 2
    /\ 2 * matched * pattern.confidenceMultiplier < 119 * Len(pattern.symptoms)

\* C25: every suggestion of category prediction in the list returned by
\* generateIntelligentSuggestions has confidence 60 or more; a pattern that
\* meets its threshold and the 2-match floor with a confidence below 60 is
\* emitted by the scorer and is absent from the returned list
C25_PredictionsAtLeast60 ==
    GenerateReturnedLoaded =>
        /\ \A k \in 1..Len(lastCall.out.list) :
              lastCall.out.list[k].category = "prediction" =>
                  lastCall.out.list[k].confidence >= 60
        /\ \A p \in 1..Len(getDiseasePatterns) :
              EmittedBelow60(MatchCount(TypesOf(AllInput), getDiseasePatterns[p].symptoms),
                             getDiseasePatterns[p]) =>
                  /\ HasId(predictPotentialConditions(AllInput, lastCall.clock),
                           "disease_prediction_" \o getDiseasePatterns[p].name)
                  /\ ~HasId(lastCall.out.list,
                            "disease_prediction_" \o getDiseasePatterns[p].name)

\* the flu pattern was emitted by the scorer with confidence 51 and left out,
\* while a prediction of confidence 60 or more was returned
C25_Witness ==
    /\ GenerateReturnedLoaded
    /\ \E k \in 1..Len(predictPotentialConditions(AllInput, lastCall.clock)) :
          /\ predictPotentialConditions(AllInput, lastCall.clock)[k].id = "disease_prediction_flu"
          /\ predictPotentialConditions(AllInput, lastCall.clock)[k].confidence = 51
    /\ ~HasId(lastCall.out.list, "disease_prediction_flu")
    /\ \E k \in 1..Len(lastCall.out.list) : lastCall.out.list[k].category = "prediction"

\* C26 as claimed: all records in the symptom list have pairwise distinct ids
C26_DistinctIds ==
    \A i, j \in 1..Len(trackerSymptoms) :
        i # j => trackerSymptoms[i].id # trackerSymptoms[j].id

\* C30 as claimed: a typed phrase that is exactly one of the stop words adds no
\* entry to the selected list, neither as a custom symptom nor as a matched
\* definition
C30_StopWordDropped ==
    ( /\ lastOp.op \in { "processAdditionalSymptoms", "addSymptomDirectly" }
      /\ isCommonStopWord(lastOp.input) ) =>
        selectedSymptoms = lastOp.selectedBefore

\* some symptom of the list has a severity at the threshold or names a critical symptom
AlertQualifies(alertSymptoms) ==
    \E i \in 1..Len(alertSymptoms) :
        \/ alertSymptoms[i].severity >= emergencyThreshold
        \/ HasName(alertSymptoms[i]) /\ NamesCritical(LowerCased(alertSymptoms[i].name))

\* a number was in the profile or in storage when the call started
NumberAvailable(call) == call.profileBefore.whatsappNumber # "" \/ call.numberBefore # ""

C27_NumberSurvivesSaveSettings ==
    lastOp.op = "saveSettings" /\ lastOp.profileBefore.whatsappNumber # ""
        => userProfile.whatsappNumber = lastOp.profileBefore.whatsappNumber

\* C28: loadSymptoms right after a saveSymptoms(L) whose write reached storage
\* returns exactly L, the empty list included, in fallback mode and outside it,
\* whatever symptoms.json holds
C28_LoadReturnsSaved ==
    lastOp.op = "loadSymptoms" /\ lastOp.saved # << >> => lastOp.returned = lastOp.saved[1]

\* C29: at most one login attempt is in progress at any time (handleLogin is
\* not entered again while the page is loading), and at most one session
\* exists: never one in localStorage and one in sessionStorage
C29_OneAttemptOneSession ==
    /\ Len(login.pending) <= 1
    /\ ~(login.localSession # << >> /\ login.sessionSession # << >>)

====
